---- MODULE Spec2Model ----
(***************************************************************************)
(* Verification model of fn-stats-cli-jnc: the raw-stat subtractor, the    *)
(* windowed retrieval (getFortniteStats / retrieveAndProcessFortniteStats  *)
(* / main), the stat structurer (createFortniteStatObject), the rate       *)
(* annotator (addFortniteRateStats) and the result filter                  *)
(* (filterFortniteStats).                                                  *)
(*                                                                         *)
(* Raw stat keys are the real key strings; key.includes(marker) is a real  *)
(* substring search.  A raw stat map is a function from a finite set of    *)
(* keys to integers.  Numbers stored in structured trees are records       *)
(* [k, n, d]: k = "num" is the rational n/d (d > 0, reduced), the other    *)
(* kinds are the JavaScript values Infinity, -Infinity, NaN and null.      *)
(***************************************************************************)
EXTENDS Integers, Sequences, FiniteSets, TLC

VARIABLES
    pc,                 \* position of the flow being modelled
    largerWindow,       \* subtractor: first argument (stats mapping)
    smallerWindow,      \* subtractor: second argument (stats mapping)
    rawStats,           \* raw stat map produced by a retrieval / subtraction
    variant,            \* which implementation ran: "current" or "legacy"
    includeBots,        \* createFortniteStatObject's second argument
    filters,            \* filter tokens (set of strings)
    nestedStats,        \* tree built by createFortniteStatObject
    statsWithRates,     \* tree returned by addFortniteRateStats
    filteredStats,      \* tree returned by filterFortniteStats
    timeWindow,         \* {startTime, endTime} handed to the retrieval
    directRequested,    \* whether the command line carried --direct
    useDirectMethod,    \* main's flag after the forcing rule
    tomorrowMidnightGMT,\* the clock: tomorrow 00:00 UTC in epoch units
    apiCalls,           \* windows queried from epicClient.fortnite.getStats, in order
    apiResponses,       \* what each query returned (a stats mapping or "error")
    thrown,             \* error thrown out of getFortniteStats ("none" if none)
    reportOutcome,      \* how retrieveAndProcessFortniteStats settled
    retrievedStats,     \* rawStats.stats as getFortniteStats returned it
    filteredRawStats,   \* filteredStats.stats inside retrieveAndProcessFortniteStats
    filteredAliasesRaw, \* filteredStats and rawStats name the same object
    statPatternKeys,    \* stat pattern keys of the command line (set of strings)
    upstream,           \* the upstream service's snapshots: time -> cumulative stats
    directStats,        \* what a direct-mode retrieval of the same window returned
    middleWindow,       \* subtractor: a snapshot between largerWindow and smallerWindow
    differences,        \* the subtractions of the three snapshots, pair by pair
    endTime,            \* searchStatsHistory: end time of the next query
    step,               \* searchStatsHistory: number of the next query
    historyStats,       \* searchStatsHistory: its accumulatedStats array
    statDifferences,    \* searchStatsHistory: its statDifferences array
    savedResults,       \* searchStatsHistory: the result files written
    trnStats,           \* object returned by transformToTRNFormat
    refilteredStats     \* tree returned by filterFortniteStats applied to its own result

vars == <<pc, largerWindow, smallerWindow, rawStats, variant, includeBots,
          filters, nestedStats, statsWithRates, filteredStats,
          timeWindow, directRequested, useDirectMethod, tomorrowMidnightGMT,
          apiCalls, apiResponses, thrown, reportOutcome,
          retrievedStats, filteredRawStats, filteredAliasesRaw, statPatternKeys,
          upstream, directStats, middleWindow, differences,
          endTime, step, historyStats, statDifferences, savedResults,
          trnStats, refilteredStats>>

(***************************************************************************)
(* Bounds of the model.                                                    *)
(***************************************************************************)
MaxVal == 2          \* raw counters range over -1..MaxVal (a subtraction can go negative)
MaxKeys == 2         \* number of keys of a raw stat map fed to the structurer
MaxTokens == 2       \* number of filter tokens on a command line
MaxTime == 4         \* epoch times range over 0..MaxTime
MaxSteps == 2        \* queries of one history search

(***************************************************************************)
(* Mode vocabularies and stat patterns (fortniteModeConstants.js).         *)
(***************************************************************************)
teamSizes == <<"solo", "duo", "trio", "squad">>
buildModes == <<"zeroBuild", "build">>
compModes == <<"pubs", "ranked", "bots">>
gameModes == <<"regular", "reload">>

statPattern ==
    << <<"matches", "br_matchesplayed">>,
       <<"kills", "br_kills">>,
       <<"wins", "br_placetop1_">>,
       <<"top3", "br_placetop3_">>,
       <<"top5", "br_placetop5_">>,
       <<"top6", "br_placetop6_">>,
       <<"top10", "br_placetop10_">>,
       <<"top12", "br_placetop12_">>,
       <<"top25", "br_placetop25_">>,
       <<"minutes", "br_minutesplayed">> >>

Range(s) == {s[i] : i \in DOMAIN s}

StatNames == {statPattern[i][1] : i \in DOMAIN statPattern}

PatternOf(statName) ==
    LET i == CHOOSE j \in DOMAIN statPattern : statPattern[j][1] = statName
    IN  statPattern[i][2]

(***************************************************************************)
(* The raw keys the model draws from.  Each is a key of the shape the      *)
(* upstream API returns (br_<stat>_<input>_m0_playlist_<playlist>), chosen *)
(* so that every marker the code tests for occurs, alone and combined.     *)
(***************************************************************************)
KeyMatchesKbmZbSolo == "br_matchesplayed_keyboardmouse_m0_playlist_nobuildbr_solo"
KeyMatchesPadZbSolo == "br_matchesplayed_gamepad_m0_playlist_nobuildbr_solo"
KeyKillsKbmZbSolo == "br_kills_keyboardmouse_m0_playlist_nobuildbr_solo"
KeyKillsPadZbSolo == "br_kills_gamepad_m0_playlist_nobuildbr_solo"
KeyWinsKbmZbSolo == "br_placetop1_keyboardmouse_m0_playlist_nobuildbr_solo"
KeyMinutesKbmZbSolo == "br_minutesplayed_keyboardmouse_m0_playlist_nobuildbr_solo"
KeyModifiedKbmZbSolo == "br_lastmodified_keyboardmouse_m0_playlist_nobuildbr_solo"
KeyMatchesBuildDuo == "br_matchesplayed_gamepad_m0_playlist_defaultduo"
KeyMatchesRankedZbSolo == "br_matchesplayed_gamepad_m0_playlist_nobuildbr_habanero_solo"
KeyMatchesBotsZbSolo == "br_matchesplayed_gamepad_m0_playlist_bots_nobuildbr_solo"
KeyMatchesRankedBots == "br_matchesplayed_gamepad_m0_playlist_bots_nobuildbr_habanero_solo"
KeyMatchesReloadTrio == "br_matchesplayed_gamepad_m0_playlist_punchberry_nobuild_trio"
KeyMatchesReloadSquadA == "br_matchesplayed_gamepad_m0_playlist_sunflower_nobuild_squad"
KeyMatchesReloadSquadB == "br_matchesplayed_gamepad_m0_playlist_blastberry_nobuild_squad"
KeyMatchesUnknownGame == "br_matchesplayed_gamepad_m0_playlist_showdown_solo"
KeyMatchesDuoSolo == "br_matchesplayed_gamepad_m0_playlist_nobuildbr_duo_solo"
KeyTop5KbmZbSolo == "br_placetop5_keyboardmouse_m0_playlist_nobuildbr_solo"

KeyUniverse ==
    { KeyMatchesKbmZbSolo, KeyMatchesPadZbSolo, KeyKillsKbmZbSolo, KeyKillsPadZbSolo,
      KeyWinsKbmZbSolo, KeyMinutesKbmZbSolo, KeyModifiedKbmZbSolo, KeyMatchesBuildDuo,
      KeyMatchesRankedZbSolo, KeyMatchesBotsZbSolo, KeyMatchesRankedBots,
      KeyMatchesReloadTrio, KeyMatchesReloadSquadA, KeyMatchesReloadSquadB,
      KeyMatchesUnknownGame, KeyMatchesDuoSolo }

(***************************************************************************)
(* String.prototype.includes: pat occurs in str as a contiguous substring. *)
(***************************************************************************)
StringIncludes(str, pat) ==
    \E i \in 1..(Len(str) - Len(pat) + 1) : SubSeq(str, i, i + Len(pat) - 1) = pat

Markers ==
    { "nobuild", "nobuildbr", "default", "punchberry", "sunflower", "blastberry",
      "habanero", "bots", "lastmodified", "gamepad", "keyboardmouse" }
    \cup Range(teamSizes) \cup {statPattern[i][2] : i \in DOMAIN statPattern}

\* The substring search of every key for every marker, computed once.
KeyMarkers ==
    [key \in KeyUniverse \cup {KeyTop5KbmZbSolo} |-> {m \in Markers : StringIncludes(key, m)}]

includes(key, marker) == marker \in KeyMarkers[key]

(***************************************************************************)
(* JavaScript numbers as they occur in the trees.                          *)
(***************************************************************************)
RECURSIVE Gcd(_, _)
Gcd(a, b) == IF b = 0 THEN a ELSE Gcd(b, a % b)

Abs(x) == IF x < 0 THEN 0 - x ELSE x

Num(n) == [k |-> "num", n |-> n, d |-> 1]
Infinity == [k |-> "inf", n |-> 0, d |-> 1]
NegInfinity == [k |-> "ninf", n |-> 0, d |-> 1]
NaN == [k |-> "nan", n |-> 0, d |-> 1]
Null == [k |-> "null", n |-> 0, d |-> 1]
Undefined == [k |-> "undefined", n |-> 0, d |-> 1]

\* a / b for two integers, as IEEE division decides the non-finite cases
DivideZeroGuarded(a, b) ==
    IF b = 0
    THEN [k |-> "num", n |-> 0, d |-> 1]
    ELSE LET g == Gcd(Abs(a), Abs(b))
             sgn == IF b < 0 THEN 0 - 1 ELSE 1
         IN  [k |-> "num", n |-> (sgn * a) \div g, d |-> Abs(b) \div g]

Divide(a, b) ==
    IF b = 0
    THEN IF a > 0 THEN Infinity ELSE IF a < 0 THEN NegInfinity ELSE NaN
    ELSE LET g == Gcd(Abs(a), Abs(b))
             sgn == IF b < 0 THEN 0 - 1 ELSE 1
         IN  [k |-> "num", n |-> (sgn * a) \div g, d |-> Abs(b) \div g]

\* x / y for two tree values; both are integers (d = 1) or undefined when the
\* annotator divides them
DivideValues(x, y) ==
    IF x.k = "num" /\ y.k = "num" /\ x.d = 1 /\ y.d = 1
    THEN Divide(x.n, y.n)
    ELSE NaN

(***************************************************************************)
(* Raw stat maps: rawStats.stats, a mapping key -> number.                 *)
(***************************************************************************)
Counters == -1..MaxVal

EmptyObject == <<>>

\* stats[key] || 0
OrZero(stats, key) == IF key \in DOMAIN stats THEN stats[key] ELSE 0

\* Object.keys({...largerWindow.stats, ...smallerWindow.stats})
SpreadKeysLargerOnly(larger, smaller) == DOMAIN larger

SpreadKeys(larger, smaller) == DOMAIN larger \cup DOMAIN smaller

\* fortniteRawStatOps.js: one entry of the result
SubtractEntryFlipped(larger, smaller, key) ==
    IF includes(key, "lastmodified")
    THEN OrZero(larger, key)
    ELSE OrZero(smaller, key) - OrZero(larger, key)

SubtractEntryNoTimestampCase(larger, smaller, key) ==
    OrZero(larger, key) - OrZero(smaller, key)

SubtractEntry(larger, smaller, key) ==
    IF includes(key, "lastmodified")
    THEN OrZero(larger, key)
    ELSE OrZero(larger, key) - OrZero(smaller, key)

\* fortniteRawStatOps.js subtractRawFortniteStats (the CLI's subtractor)
subtractRawFortniteStats(larger, smaller) ==
    [key \in SpreadKeys(larger, smaller) |-> SubtractEntry(larger, smaller, key)]

\* fortniteStatCalculations.js subtractRawFortniteStats (used by
\* FortniteStatsRetriever.getStats): no lastmodified case
subtractRawFortniteStats_Calculations(larger, smaller) ==
    [key \in SpreadKeys(larger, smaller) |-> OrZero(larger, key) - OrZero(smaller, key)]

(***************************************************************************)
(* Stat structurer: createFortniteStatObject (fortniteStructuredStatOps.js)*)
(* Key arrays are sets here: the code only filters them and sums over them.*)
(***************************************************************************)
keyBuild(keys, buildMode) ==
    {key \in keys : IF buildMode = "zeroBuild"
                    THEN includes(key, "nobuild")
                    ELSE ~includes(key, "nobuild")}

keyGame(keysOfBuild, gameMode) ==
    {key \in keysOfBuild :
        \/ /\ gameMode = "regular"
           /\ (includes(key, "nobuildbr") \/ includes(key, "default"))
        \/ /\ gameMode = "reload"
           /\ (includes(key, "punchberry") \/ includes(key, "sunflower")
                  \/ includes(key, "blastberry"))}

keyComp(keysOfGame, compMode) ==
    {key \in keysOfGame :
        \/ /\ compMode = "pubs"
           /\ ~includes(key, "habanero") /\ ~includes(key, "bots")
        \/ /\ compMode = "ranked"
           /\ includes(key, "habanero")
        \/ /\ compMode = "bots"
           /\ includes(key, "bots")}

keySizeComp(keysOfComp, size) == {key \in keysOfComp : includes(key, size)}

\* the keys createFortniteStatObject considers for one quadruple
BucketKeys(stats, buildMode, gameMode, compMode, size) ==
    keySizeComp(keyComp(keyGame(keyBuild(DOMAIN stats, buildMode), gameMode), compMode), size)

keyStat(keysOfSize, pattern) == {key \in keysOfSize : includes(key, pattern)}

\* keyStat.reduce((sum, key) => sum + rawStats.stats[key], 0)
RECURSIVE accumulatedStatsOverwrite(_, _)
accumulatedStatsOverwrite(keys, stats) ==
    IF keys = {} THEN 0
    ELSE LET key == CHOOSE k \in keys : TRUE
         IN  IF keys \ {key} = {} THEN stats[key]
             ELSE accumulatedStatsOverwrite(keys \ {key}, stats)

RECURSIVE accumulatedStats(_, _)
accumulatedStats(keys, stats) ==
    IF keys = {} THEN 0
    ELSE LET key == CHOOSE k \in keys : TRUE
         IN  stats[key] + accumulatedStats(keys \ {key}, stats)

\* "if (compMode === 'bots' && !includeBots) continue"
skipCompModeNever(compMode, withBots) == FALSE

skipCompMode(compMode, withBots) == compMode = "bots" /\ ~withBots

\* "if (gameMode === 'reload' && size === 'trio') continue"
skipTeamSizeNever(gameMode, size) == FALSE

skipTeamSize(gameMode, size) == gameMode = "reload" /\ size = "trio"

\* the matches gate: the team size is kept only with a matches key and a
\* non-zero matches total
hasMatchesUnlessZero(keysOfSize, stats) ==
    LET matchesKey == keyStat(keysOfSize, PatternOf("matches"))
    IN  ~(matchesKey # {} /\ accumulatedStats(matchesKey, stats) = 0)

hasMatches(keysOfSize, stats) ==
    LET matchesKey == keyStat(keysOfSize, PatternOf("matches"))
    IN  ~(matchesKey = {} \/ accumulatedStats(matchesKey, stats) = 0)

\* "if (hasCompModeChildren)", "if (hasGameModeChildren)", "if (hasBuildModeChildren)"
hasChildrenAlways(node) == TRUE

hasChildren(node) == DOMAIN node # {}

teamSizeObject(keysOfSize, stats) ==
    [statName \in {sn \in StatNames : keyStat(keysOfSize, PatternOf(sn)) # {}} |->
        Num(accumulatedStats(keyStat(keysOfSize, PatternOf(statName)), stats))]

compModeObject(keysOfComp, stats, gameMode) ==
    [size \in {sz \in Range(teamSizes) :
                  /\ ~skipTeamSize(gameMode, sz)
                  /\ keySizeComp(keysOfComp, sz) # {}
                  /\ hasMatches(keySizeComp(keysOfComp, sz), stats)
                  /\ DOMAIN teamSizeObject(keySizeComp(keysOfComp, sz), stats) # {}} |->
        teamSizeObject(keySizeComp(keysOfComp, size), stats)]

gameModeObject(keysOfGame, stats, gameMode, withBots) ==
    [compMode \in {cm \in Range(compModes) :
                      /\ ~skipCompMode(cm, withBots)
                      /\ keyComp(keysOfGame, cm) # {}
                      /\ hasChildren(compModeObject(keyComp(keysOfGame, cm), stats, gameMode))} |->
        compModeObject(keyComp(keysOfGame, compMode), stats, gameMode)]

buildModeObject(keysOfBuild, stats, withBots) ==
    [gameMode \in {gm \in Range(gameModes) :
                      /\ keyGame(keysOfBuild, gm) # {}
                      /\ hasChildren(gameModeObject(keyGame(keysOfBuild, gm), stats, gm, withBots))} |->
        gameModeObject(keyGame(keysOfBuild, gameMode), stats, gameMode, withBots)]

createFortniteStatObject(stats, withBots) ==
    IF DOMAIN stats = {} THEN EmptyObject
    ELSE [buildMode \in {bm \in Range(buildModes) :
                            /\ keyBuild(DOMAIN stats, bm) # {}
                            /\ hasChildren(buildModeObject(keyBuild(DOMAIN stats, bm), stats, withBots))} |->
            buildModeObject(keyBuild(DOMAIN stats, buildMode), stats, withBots)]

(***************************************************************************)
(* The structurer of fortniteStatCalculations.js, used by                  *)
(* FortniteStatsRetriever.getStats: every node is created before it is     *)
(* filled, and the matches check only skips a zero total.                  *)
(***************************************************************************)
teamSizeObject_Calculations(keysOfSize, stats) ==
    LET matchesKey == keyStat(keysOfSize, PatternOf("matches"))
    IN  IF matchesKey # {} /\ accumulatedStats(matchesKey, stats) = 0
        THEN EmptyObject
        ELSE teamSizeObject(keysOfSize, stats)

createFortniteStatObject_Calculations(stats) ==
    [buildMode \in Range(buildModes) |->
      [gameMode \in Range(gameModes) |->
        [compMode \in Range(compModes) |->
          [size \in {sz \in Range(teamSizes) : ~(gameMode = "reload" /\ sz = "trio")} |->
            teamSizeObject_Calculations(
                BucketKeys(stats, buildMode, gameMode, compMode, size), stats)]]]]

(***************************************************************************)
(* JSON.parse(JSON.stringify(tree)): the deep copy both the annotator and  *)
(* the filter start from.  JSON has no Infinity or NaN: JSON.stringify     *)
(* writes them as null.  depth is the number of levels above the leaves.   *)
(***************************************************************************)
jsonValueIdentity(v) == v

jsonValue(v) == IF v.k \in {"inf", "ninf", "nan"} THEN Null ELSE v

RECURSIVE jsonClone(_, _)
jsonClone(node, depth) ==
    IF depth = 0
    THEN [f \in DOMAIN node |-> jsonValue(node[f])]
    ELSE [c \in DOMAIN node |-> jsonClone(node[c], depth - 1)]

(***************************************************************************)
(* Rate annotator: addFortniteRateStats / recurseSummary.                  *)
(***************************************************************************)
\* statSummary.x read as a number operand: a missing property is undefined
Prop(leaf, f) == IF f \in DOMAIN leaf THEN leaf[f] ELSE Undefined

\* ToNumber of an operand: null is 0, undefined is NaN
ToNumber(v) == IF v.k = "null" THEN Num(0) ELSE IF v.k = "undefined" THEN NaN ELSE v

Quotient(x, y) == DivideValues(ToNumber(x), ToNumber(y))

\* x - y and x * c on operands that are integers in every tree the structurer builds
MinusSwapped(x, y) ==
    IF ToNumber(x).k = "num" /\ ToNumber(y).k = "num"
    THEN Num(ToNumber(y).n - ToNumber(x).n) ELSE NaN

Minus(x, y) ==
    IF ToNumber(x).k = "num" /\ ToNumber(y).k = "num"
    THEN Num(ToNumber(x).n - ToNumber(y).n) ELSE NaN

TimesUnscaled(x, c) == IF ToNumber(x).k = "num" THEN Num(ToNumber(x).n) ELSE NaN

Times(x, c) == IF ToNumber(x).k = "num" THEN Num(ToNumber(x).n * c) ELSE NaN

TopNames == {"top3", "top5", "top6", "top10", "top12", "top25"}

RateName(top) == top \o "Rate"

\* the leaf branch of recurseSummary
annotateLeafKillsPerMinute(leaf) ==
    LET defaults == [f \in {"wins", "kills"} \ DOMAIN leaf |-> Num(0)]
        base == leaf @@ defaults
        tops == {t \in TopNames : t \in DOMAIN base}
        rates == [r \in {RateName(t) : t \in tops} |->
                    LET t == CHOOSE u \in tops : RateName(u) = r
                    IN  Quotient(base[t], base["matches"])]
        combat == [f \in {"winRate", "killsPerDeath", "killsPer20", "minutesPerKill"} |->
                    CASE f = "winRate" -> Quotient(base["wins"], base["matches"])
                      [] f = "killsPerDeath" ->
                            Quotient(base["kills"], Minus(base["matches"], base["wins"]))
                      [] f = "killsPer20" ->
                            Quotient(Times(base["kills"], 20), Prop(base, "minutes"))
                      [] f = "minutesPerKill" ->
                            Quotient(base["kills"], Prop(base, "minutes"))]
    IN  combat @@ rates @@ base

annotateLeaf(leaf) ==
    LET defaults == [f \in {"wins", "kills"} \ DOMAIN leaf |-> Num(0)]
        base == leaf @@ defaults
        tops == {t \in TopNames : t \in DOMAIN base}
        rates == [r \in {RateName(t) : t \in tops} |->
                    LET t == CHOOSE u \in tops : RateName(u) = r
                    IN  Quotient(base[t], base["matches"])]
        combat == [f \in {"winRate", "killsPerDeath", "killsPer20", "minutesPerKill"} |->
                    CASE f = "winRate" -> Quotient(base["wins"], base["matches"])
                      [] f = "killsPerDeath" ->
                            Quotient(base["kills"], Minus(base["matches"], base["wins"]))
                      [] f = "killsPer20" ->
                            Quotient(Times(base["kills"], 20), Prop(base, "minutes"))
                      [] f = "minutesPerKill" ->
                            Quotient(Prop(base, "minutes"), base["kills"])]
    IN  combat @@ rates @@ base

RECURSIVE recurseSummary(_, _)
recurseSummary(node, depth) ==
    IF "matches" \in DOMAIN node
    THEN annotateLeaf(node)
    ELSE IF depth = 0
         THEN node   \* children are numbers: recursing into them changes nothing
         ELSE [c \in DOMAIN node |-> recurseSummary(node[c], depth - 1)]

TreeDepth == 4   \* build, game, comp and team-size levels above the leaf

\* "let statSummary = JSON.parse(JSON.stringify(statObject))": the object
\* recurseSummary writes into, and whether it is a new object
workingCopyShared(statObject, depth) == [tree |-> statObject, fresh |-> FALSE]

workingCopy(statObject, depth) == [tree |-> jsonClone(statObject, depth), fresh |-> TRUE]

addFortniteRateStats(statObject, depth) ==
    recurseSummary(workingCopy(statObject, depth).tree, depth)

\* the caller's tree after the call: recurseSummary assigns the derived
\* fields into the object it is given
argumentAfterRateStats(statObject, depth) ==
    IF workingCopy(statObject, depth).fresh
    THEN statObject
    ELSE recurseSummary(statObject, depth)

(***************************************************************************)
(* transformToTRNFormat (fortniteStructuredStatOps.js): the nested tree    *)
(* regrouped by team size only.                                            *)
(***************************************************************************)
\* the <<buildMode, gameMode, compMode, teamSize>> nodes the four loops visit
nestedPaths(stats) ==
    UNION {UNION {UNION {{<<b, g, c, sz>> : sz \in DOMAIN stats[b][g][c]} :
                            c \in DOMAIN stats[b][g]} :
                     g \in DOMAIN stats[b]} :
              b \in DOMAIN stats}

\* "if (compMode === 'bots') continue"
trnSkipsCompModeNever(compMode) == FALSE

trnSkipsCompMode(compMode) == compMode = "bots"

\* typeof value === 'number': Infinity and NaN are numbers, null is not
isNumber(v) == v.k \in {"num", "inf", "ninf", "nan"}

\* String.prototype.endsWith
endsWith(str, suffix) ==
    Len(str) >= Len(suffix) /\ SubSeq(str, Len(str) - Len(suffix) + 1, Len(str)) = suffix

\* "!statKey.endsWith('Rate') && !['killsPerDeath', 'killsPer20',
\* 'minutesPerKill'].includes(statKey)"
isCalculatedRateNever(statKey) == FALSE

isCalculatedRate(statKey) ==
    endsWith(statKey, "Rate") \/ statKey \in {"killsPerDeath", "killsPer20", "minutesPerKill"}

\* the stat keys of a team-size node that are aggregated
aggregatedKeys(teamStats) ==
    {statKey \in DOMAIN teamStats :
        isNumber(teamStats[statKey]) /\ ~isCalculatedRate(statKey)}

\* x + y on two numbers
Plus(x, y) ==
    IF x.k = "num" /\ y.k = "num"
    THEN LET n == x.n * y.d + y.n * x.d
             d == x.d * y.d
             g == Gcd(Abs(n), d)
         IN  [k |-> "num", n |-> n \div g, d |-> d \div g]
    ELSE IF x.k = "nan" \/ y.k = "nan" THEN NaN
    ELSE IF x.k = "num" THEN y
    ELSE IF y.k = "num" \/ x.k = y.k THEN x
    ELSE NaN

\* value || 0
OrNumZero(v) == IF v.k = "nan" \/ (v.k = "num" /\ v.n = 0) THEN Num(0) ELSE v

\* "result[teamSize][statKey] = (result[teamSize][statKey] || 0) + teamStats[statKey]"
\* over the nodes of one team size
RECURSIVE trnAggregate(_, _, _)
trnAggregate(paths, stats, statKey) ==
    IF paths = {} THEN Num(0)
    ELSE LET p == CHOOSE q \in paths : TRUE
             teamStats == stats[p[1]][p[2]][p[3]][p[4]]
             before == trnAggregate(paths \ {p}, stats, statKey)
         IN  IF statKey \in aggregatedKeys(teamStats)
             THEN Plus(OrNumZero(before), teamStats[statKey])
             ELSE before

transformToTRNFormat(stats) ==
    LET visited == {p \in nestedPaths(stats) : ~trnSkipsCompMode(p[3])}
    IN  [teamSize \in {p[4] : p \in visited} |->
            LET ofSize == {p \in visited : p[4] = teamSize}
                summed == UNION {aggregatedKeys(stats[p[1]][p[2]][p[3]][p[4]]) : p \in ofSize}
            IN  [statKey \in {"matches", "wins", "kills", "minutes"} \cup summed |->
                    trnAggregate(ofSize, stats, statKey)]]

(***************************************************************************)
(* Result filter: filterFortniteStats (filterFortniteStats.js).            *)
(***************************************************************************)
Restrict(f, S) == [x \in DOMAIN f \cap S |-> f[x]]

buildFilters(tokens) == tokens \cap Range(buildModes)
gameFilters(tokens) == tokens \cap Range(gameModes)
compFilters(tokens) == tokens \cap Range(compModes)
teamFilters(tokens) == tokens \cap Range(teamSizes)

\* "Remove bots mode by default unless explicitly requested"
removeBotsNever(tree, tokens) == tree

removeBots(tree, tokens) ==
    [b \in DOMAIN tree |->
      [g \in DOMAIN tree[b] |->
        IF "bots" \in compFilters(tokens)
        THEN tree[b][g]
        ELSE Restrict(tree[b][g], DOMAIN tree[b][g] \ {"bots"})]]

\* "Handle build mode filtering"
filterBuildModesKeepAll(tree, tokens) ==
    IF buildFilters(tokens) # {}
    THEN Restrict(tree, buildFilters(tokens))
    ELSE tree

filterBuildModesDefaultOnly(tree, tokens) ==
    Restrict(tree, DOMAIN tree \ ({"build"} \ buildFilters(tokens)))

filterBuildModes(tree, tokens) ==
    IF buildFilters(tokens) # {}
    THEN Restrict(tree, buildFilters(tokens))
    ELSE Restrict(tree, DOMAIN tree \ {"build"})

\* "Apply remaining filters if any exist"
filterRemaining(tree, tokens) ==
    IF tokens = {} THEN tree
    ELSE [b \in DOMAIN tree |->
           LET games == IF gameFilters(tokens) # {}
                        THEN Restrict(tree[b], gameFilters(tokens))
                        ELSE tree[b]
           IN  [g \in DOMAIN games |->
                 LET comps == IF compFilters(tokens) # {}
                              THEN Restrict(games[g], compFilters(tokens))
                              ELSE games[g]
                 IN  [c \in DOMAIN comps |->
                       IF teamFilters(tokens) # {}
                       THEN Restrict(comps[c], teamFilters(tokens))
                       ELSE comps[c]]]]

filterFortniteStats(stats, tokens) ==
    filterRemaining(
        filterBuildModes(removeBots(jsonClone(stats, TreeDepth), tokens), tokens), tokens)

(***************************************************************************)
(* Raw-stat filters of the command-line tool: filterRawFortniteStats and   *)
(* filterByStatPatterns (fortniteRawStatOps.js), and the earlier           *)
(* stand-alone filterRawFortniteStats (filterRawFortniteStats.js).         *)
(***************************************************************************)
\* input device vocabulary imported from fortniteModeConstants.js
inputTypes == <<"gamepad", "keyboardmouse">>

inputFilters(tokens) == tokens \cap Range(inputTypes)

\* "Classify this key"
buildModeOf(key) == IF includes(key, "nobuild") THEN "zeroBuild" ELSE "build"

gameModeOf(key) ==
    IF includes(key, "nobuildbr") \/ includes(key, "default") THEN "regular"
    ELSE IF includes(key, "punchberry") \/ includes(key, "sunflower")
               \/ includes(key, "blastberry") THEN "reload"
    ELSE "unknown"

compModeOf(key) ==
    IF includes(key, "habanero") THEN "ranked"
    ELSE IF includes(key, "bots") THEN "bots"
    ELSE "pubs"

\* "for (const size of teamSizes) if (key.includes(size)) { teamSize = size; break; }"
teamSizeOf(key) ==
    IF \E i \in DOMAIN teamSizes : includes(key, teamSizes[i])
    THEN LET first == CHOOSE i \in DOMAIN teamSizes :
                         /\ includes(key, teamSizes[i])
                         /\ \A j \in 1..(i - 1) : ~includes(key, teamSizes[j])
         IN  teamSizes[first]
    ELSE "uknown"

inputTypeOf(key) ==
    IF includes(key, "gamepad") THEN "gamepad"
    ELSE IF includes(key, "keyboardmouse") THEN "keyboardmouse"
    ELSE "unknown"

\* "Apply filters": the key reaches "filteredStats[key] = rawStats.stats[key]"
keepsRawKey(key, tokens) ==
    /\ ~(buildFilters(tokens) # {} /\ buildModeOf(key) \notin buildFilters(tokens))
    /\ ~(gameFilters(tokens) # {} /\ gameModeOf(key) \notin gameFilters(tokens))
    /\ IF compFilters(tokens) # {}
       THEN compModeOf(key) \in compFilters(tokens)
       ELSE compModeOf(key) # "bots"
    /\ ~(teamFilters(tokens) # {} /\ teamSizeOf(key) \notin teamFilters(tokens))
    /\ ~(inputFilters(tokens) # {} /\ inputTypeOf(key) \notin inputFilters(tokens))

\* fortniteRawStatOps.js filterRawFortniteStats: the stats of the returned object
filterRawFortniteStats(stats, tokens) ==
    Restrict(stats, {key \in DOMAIN stats : keepsRawKey(key, tokens)})

\* filterRawFortniteStats.js: unknown game modes and team sizes and reload
\* trios are dropped, build keys are dropped by default, no input filter
keepsRawKey_Standalone(key, tokens) ==
    /\ gameModeOf(key) # "unknown"
    /\ teamSizeOf(key) # "uknown"
    /\ ~(gameModeOf(key) = "reload" /\ teamSizeOf(key) = "trio")
    /\ IF buildFilters(tokens) # {}
       THEN buildModeOf(key) \in buildFilters(tokens)
       ELSE buildModeOf(key) # "build"
    /\ ~(gameFilters(tokens) # {} /\ gameModeOf(key) \notin gameFilters(tokens))
    /\ IF compFilters(tokens) # {}
       THEN compModeOf(key) \in compFilters(tokens)
       ELSE compModeOf(key) # "bots"
    /\ ~(teamFilters(tokens) # {} /\ teamSizeOf(key) \notin teamFilters(tokens))

filterRawFortniteStats_Standalone(stats, tokens) ==
    Restrict(stats, {key \in DOMAIN stats : keepsRawKey_Standalone(key, tokens)})

\* filterByStatPatterns(stats, patterns): "Always includes lastmodified keys"
patternValues(patterns) == {PatternOf(pt) : pt \in patterns \cap StatNames}

filterByStatPatterns(stats, patterns) ==
    IF patterns = {} \/ patternValues(patterns) = {}
    THEN stats
    ELSE Restrict(stats, {key \in DOMAIN stats :
                             \/ includes(key, "lastmodified")
                             \/ \E pattern \in patternValues(patterns) : includes(key, pattern)})

(***************************************************************************)
(* Windowed retrieval: main's forcing rule, getFortniteStats and           *)
(* retrieveAndProcessFortniteStats.                                        *)
(***************************************************************************)
Ch1S1Start == 1      \* seasonTimestamps.ch1s1.startTime, in the model's time units

EpochTimes == 0..MaxTime

Errors == {"network", "auth", "http"}

\* main: "if (timeWindow.startTime === 0)" / "if (timeWindow.endTime === 0)"
zeroToCh1S1(t) == IF t = 0 THEN Ch1S1Start ELSE t

\* main: "Force direct method if startTime is lifetime stats"
forceDirectStrictlyBefore(startTime) == startTime < Ch1S1Start

forceDirect(startTime) == startTime <= Ch1S1Start

\* getFortniteStats: window of API call #1
fromCh1s1ToNowOrEndUnclamped(window, tomorrow) ==
    [startTime |-> Ch1S1Start, endTime |-> window.endTime]

fromCh1s1ToNowOrEnd(window, tomorrow) ==
    [startTime |-> Ch1S1Start,
     endTime |-> IF window.endTime < tomorrow THEN window.endTime ELSE tomorrow]

\* getFortniteStats: window of API call #2
fromCh1s1ToStartAtOrigin(window) == [startTime |-> Ch1S1Start, endTime |-> Ch1S1Start]

fromCh1s1ToStart(window) == [startTime |-> Ch1S1Start, endTime |-> window.startTime]

\* getFortniteStats: "const rawStats = subtractRawFortniteStats(statsToNowOrEnd, statsToStart)"
isolateWindowSwapped(statsToNowOrEnd, statsToStart) ==
    subtractRawFortniteStats(statsToStart, statsToNowOrEnd)

isolateWindow(statsToNowOrEnd, statsToStart) ==
    subtractRawFortniteStats(statsToNowOrEnd, statsToStart)

(***************************************************************************)
(* Input sets.                                                             *)
(***************************************************************************)
\* all stat mappings with at most n keys out of keys and values in values
MapsOver(keys, n, values) ==
    UNION {[d -> values] : d \in {ks \in SUBSET keys : Cardinality(ks) <= n}}

\* what the upstream API answers: cumulative counters and a timestamp
SnapshotKeys == {KeyMatchesKbmZbSolo, KeyKillsKbmZbSolo, KeyModifiedKbmZbSolo}

Snapshots == MapsOver(SnapshotKeys, Cardinality(SnapshotKeys), 0..MaxVal)

ApiSnapshots == MapsOver({KeyMatchesKbmZbSolo, KeyModifiedKbmZbSolo}, 2, 0..MaxVal)

RawMaps == MapsOver(KeyUniverse, MaxKeys, Counters)

ReportKeys ==
    { KeyMatchesKbmZbSolo, KeyKillsKbmZbSolo, KeyMatchesBuildDuo,
      KeyMatchesRankedZbSolo, KeyMatchesBotsZbSolo, KeyMatchesReloadSquadA }

ReportRawMaps == MapsOver(ReportKeys, MaxKeys, Counters)

FilterVocabulary ==
    {"zeroBuild", "build", "regular", "reload", "pubs", "ranked", "bots",
     "solo", "duo", "gamepad"}

FilterTokenSets == {ts \in SUBSET FilterVocabulary : Cardinality(ts) <= MaxTokens}

\* raw maps whose counters are all positive: every key was played
PlayedRawMaps == MapsOver(ReportKeys, MaxKeys, 1..MaxVal)

\* the raw maps fed to the command-line pipeline, its tokens and pattern keys
CliKeys ==
    { KeyMatchesKbmZbSolo, KeyKillsKbmZbSolo, KeyModifiedKbmZbSolo,
      KeyMatchesBuildDuo, KeyMatchesBotsZbSolo }

CliRawMaps == MapsOver(CliKeys, MaxKeys, Counters)

CliVocabulary == {"build", "bots", "solo", "gamepad"}

CliTokenSets == {ts \in SUBSET CliVocabulary : Cardinality(ts) <= MaxTokens}

CliPatternSets == {ps \in SUBSET {"matches", "kills"} : Cardinality(ps) <= 1}

\* one solo bucket with every stat the rates read, and the worked examples
RateKeys ==
    { KeyMatchesKbmZbSolo, KeyWinsKbmZbSolo, KeyKillsKbmZbSolo,
      KeyMinutesKbmZbSolo, KeyTop5KbmZbSolo }

ExampleRawStats ==
    (KeyMatchesKbmZbSolo :> 10) @@ (KeyWinsKbmZbSolo :> 2)
       @@ (KeyKillsKbmZbSolo :> 16) @@ (KeyMinutesKbmZbSolo :> 40)

ExampleRawStatsTop5 == ExampleRawStats @@ (KeyTop5KbmZbSolo :> 4)

RateRawMaps ==
    MapsOver(RateKeys, Cardinality(RateKeys), Counters)
       \cup {ExampleRawStats, ExampleRawStatsTop5}

NoWindow == [startTime |-> 0, endTime |-> 0]

Pending == [state |-> "pending", error |-> "none"]
Resolved == [state |-> "resolved", error |-> "none"]
Rejected(e) == [state |-> "rejected", error |-> e]

(***************************************************************************)
(* The upstream service as doc/EpicStatAPIWorkingTheory.MD describes it:   *)
(* cumulative totals since the origin, kept as snapshots taken at some     *)
(* times after the origin; a query from the origin answers the totals of   *)
(* the latest snapshot up to its end time, a query of a later window       *)
(* answers the latest snapshot inside the window minus the earliest one,   *)
(* and nothing when fewer than two snapshots lie inside.                   *)
(***************************************************************************)
SnapshotTimes == (Ch1S1Start + 1)..MaxTime

\* "a running total per mode/playlist": totals and timestamps only grow
Grows(earlier, later) ==
    /\ DOMAIN earlier \subseteq DOMAIN later
    /\ \A k \in DOMAIN earlier : earlier[k] <= later[k]

Timelines ==
    UNION {{tl \in [T -> ApiSnapshots] :
               \A a \in T, b \in T : a < b => Grows(tl[a], tl[b])} :
           T \in SUBSET SnapshotTimes}

Latest(times) == CHOOSE t \in times : \A u \in times : u <= t
Earliest(times) == CHOOSE t \in times : \A u \in times : t <= u

\* "The API locates snapshots that fall within the specified time window"
snapshotsWithin(tl, window) ==
    {t \in DOMAIN tl : window.startTime <= t /\ t <= window.endTime}

\* "It subtracts the earliest snapshot in the window from the latest snapshot"
upstreamDifference(latest, earliest) ==
    [k \in DOMAIN latest |->
        IF includes(k, "lastmodified") THEN latest[k]
        ELSE latest[k] - OrZero(earliest, k)]

\* what epicClient.fortnite.getStats(playerId, window) answers
upstreamGetStats(tl, window) ==
    LET inside == snapshotsWithin(tl, window)
    IN  IF window.startTime <= Ch1S1Start
        THEN IF inside = {} THEN EmptyObject ELSE tl[Latest(inside)]
        ELSE IF Cardinality(inside) < 2 THEN EmptyObject
             ELSE upstreamDifference(tl[Latest(inside)], tl[Earliest(inside)])

(***************************************************************************)
(* History search: searchStatsHistory and the helpers it calls             *)
(* (fortniteRawStatOps.js, dateUtils.js).  A day has DayLength time units. *)
(***************************************************************************)
DayLength == 2

Ch5S1Start == 2      \* seasonTimestamps.ch5s1.startTime, in the model's time units

\* dateUtils.js getMidnightGMT: setUTCHours(0, 0, 0, 0)
getMidnightGMT(timestamp) == timestamp - (timestamp % DayLength)

\* formatTime(timestamp): a date string, never a number
formatTime(timestamp) == <<"time", timestamp>>

\* getSortedStats: the same entries, inserted in key order
getSortedStats(stats) == stats

\* getLatestModifiedTimestamp: "let latest = 0 ... if (timestamp > latest)"
getLatestModifiedTimestamp(stats) ==
    LET stamps == {stats[key] : key \in {k \in DOMAIN stats : includes(k, "lastmodified")}}
                     \cup {0}
    IN  CHOOSE t \in stamps : \A u \in stamps : u <= t

\* getStatsDifference(newStats, oldStats)
getStatsDifference(newStats, oldStats) ==
    [key \in {k \in DOMAIN newStats : k \notin DOMAIN oldStats \/ newStats[k] # oldStats[k]} |->
        IF key \notin DOMAIN oldStats THEN newStats[key]
        ELSE IF ~includes(key, "lastmodified") THEN oldStats[key] - newStats[key]
        ELSE formatTime(newStats[key])]

HistoryTimes == 0..(2 * MaxTime)

\* what the upstream answers to one query of the search: a matches counter
\* and a lastmodified time, each possibly absent
HistoryResponses ==
    UNION {{m @@ t : t \in MapsOver({KeyModifiedKbmZbSolo}, 1, HistoryTimes)} :
           m \in MapsOver({KeyMatchesKbmZbSolo}, 1, 0..MaxVal)}

HistoryFilters == {{}, {"build"}}

(***************************************************************************)
(* Initial states: one per specification, all over the same variables.     *)
(* The parts a specification does not exercise stay at these idle values.  *)
(***************************************************************************)
IdleSubtractor ==
    /\ largerWindow = EmptyObject
    /\ smallerWindow = EmptyObject

IdlePipeline ==
    /\ includeBots = FALSE
    /\ filters = {}
    /\ nestedStats = EmptyObject
    /\ statsWithRates = EmptyObject
    /\ filteredStats = EmptyObject

IdleRetrieval ==
    /\ timeWindow = NoWindow
    /\ directRequested = FALSE
    /\ useDirectMethod = FALSE
    /\ tomorrowMidnightGMT = MaxTime
    /\ apiCalls = <<>>
    /\ apiResponses = <<>>
    /\ thrown = "none"
    /\ reportOutcome = Pending

IdleCli ==
    /\ retrievedStats = EmptyObject
    /\ filteredRawStats = EmptyObject
    /\ filteredAliasesRaw = FALSE
    /\ statPatternKeys = {}

IdleWindows ==
    /\ upstream = <<>>
    /\ directStats = EmptyObject

IdleAdditivity ==
    /\ middleWindow = EmptyObject
    /\ differences = <<>>

IdleHistory ==
    /\ endTime = 0
    /\ step = 1
    /\ historyStats = <<>>
    /\ statDifferences = <<>>
    /\ savedResults = <<>>

IdleOutputs ==
    /\ trnStats = EmptyObject
    /\ refilteredStats = EmptyObject

IdleExtra ==
    /\ IdleWindows
    /\ IdleAdditivity
    /\ IdleHistory
    /\ IdleOutputs

windowVars == <<upstream, directStats>>
additivityVars == <<middleWindow, differences>>
historyVars == <<endTime, step, historyStats, statDifferences, savedResults>>
outputVars == <<trnStats, refilteredStats>>
extraVars == <<windowVars, additivityVars, historyVars, outputVars>>
cliVars == <<retrievedStats, filteredRawStats, filteredAliasesRaw, statPatternKeys>>
pipelineVars == <<includeBots, filters, nestedStats, statsWithRates, filteredStats>>
subtractorVars == <<largerWindow, smallerWindow>>
retrievalVars == <<timeWindow, directRequested, useDirectMethod, tomorrowMidnightGMT,
                   apiCalls, apiResponses, thrown, reportOutcome>>

\* Spec: the command line has been read; the clock is somewhere after the origin
Init ==
    /\ pc = "main"
    /\ rawStats = EmptyObject
    /\ variant = "none"
    /\ IdleSubtractor
    /\ IdlePipeline
    /\ timeWindow = NoWindow
    /\ directRequested = FALSE
    /\ useDirectMethod = FALSE
    /\ tomorrowMidnightGMT \in (Ch1S1Start + 1)..MaxTime
    /\ apiCalls = <<>>
    /\ apiResponses = <<>>
    /\ thrown = "none"
    /\ reportOutcome = Pending
    /\ IdleCli
    /\ IdleExtra

\* SpecSubtract: two snapshots are at hand
InitSubtract ==
    /\ pc = "snapshots"
    /\ largerWindow \in Snapshots
    /\ smallerWindow \in Snapshots
    /\ rawStats = EmptyObject
    /\ variant = "none"
    /\ IdlePipeline
    /\ IdleRetrieval
    /\ IdleExtra
    /\ IdleCli

\* SpecStructure: a raw stat map is at hand
InitStructure ==
    /\ pc = "raw"
    /\ rawStats \in RawMaps
    /\ variant = "none"
    /\ IdleSubtractor
    /\ IdlePipeline
    /\ IdleRetrieval
    /\ IdleExtra
    /\ IdleCli

\* SpecReport: a raw stat map is at hand, to be structured, annotated and filtered
InitReport ==
    /\ pc = "raw"
    /\ rawStats \in ReportRawMaps
    /\ variant = "none"
    /\ IdleSubtractor
    /\ IdlePipeline
    /\ IdleRetrieval
    /\ IdleExtra
    /\ IdleCli

\* SpecFilter: a raw stat map whose keys were all played is at hand
InitFilter ==
    /\ pc = "raw"
    /\ rawStats \in PlayedRawMaps
    /\ variant = "none"
    /\ IdleSubtractor
    /\ IdlePipeline
    /\ IdleRetrieval
    /\ IdleExtra
    /\ IdleCli

\* SpecRates: the raw stats of one solo bucket are at hand
InitRates ==
    /\ pc = "raw"
    /\ rawStats \in RateRawMaps
    /\ variant = "none"
    /\ IdleSubtractor
    /\ IdlePipeline
    /\ IdleRetrieval
    /\ IdleExtra
    /\ IdleCli

\* SpecEquivalence: a raw stat map is at hand, to be filtered raw and as a tree
InitEquivalence ==
    /\ pc = "raw"
    /\ rawStats \in ReportRawMaps
    /\ variant = "none"
    /\ IdleSubtractor
    /\ IdlePipeline
    /\ IdleRetrieval
    /\ IdleExtra
    /\ IdleCli

\* SpecCli: getFortniteStats has just returned rawStats to
\* retrieveAndProcessFortniteStats
InitCli ==
    /\ pc = "retrieved"
    /\ rawStats \in CliRawMaps
    /\ retrievedStats = rawStats
    /\ filteredRawStats = EmptyObject
    /\ filteredAliasesRaw = FALSE
    /\ statPatternKeys = {}
    /\ variant = "none"
    /\ IdleSubtractor
    /\ IdlePipeline
    /\ IdleRetrieval
    /\ IdleExtra

\* SpecWindows: the upstream holds some snapshots, none of them in the future
InitWindows ==
    /\ pc = "window"
    /\ tomorrowMidnightGMT \in SnapshotTimes
    /\ upstream \in {tl \in Timelines : \A t \in DOMAIN tl : t <= tomorrowMidnightGMT}
    /\ directStats = EmptyObject
    /\ IdleAdditivity
    /\ IdleHistory
    /\ IdleOutputs
    /\ rawStats = EmptyObject
    /\ variant = "none"
    /\ IdleSubtractor
    /\ IdlePipeline
    /\ timeWindow = NoWindow
    /\ directRequested = FALSE
    /\ useDirectMethod = FALSE
    /\ apiCalls = <<>>
    /\ apiResponses = <<>>
    /\ thrown = "none"
    /\ reportOutcome = Pending
    /\ IdleCli

\* SpecAdditivity: three snapshots of the same origin are at hand
InitAdditivity ==
    /\ pc = "snapshots3"
    /\ largerWindow \in ApiSnapshots
    /\ middleWindow \in ApiSnapshots
    /\ smallerWindow \in ApiSnapshots
    /\ differences = <<>>
    /\ IdleWindows
    /\ IdleHistory
    /\ IdleOutputs
    /\ rawStats = EmptyObject
    /\ variant = "none"
    /\ IdlePipeline
    /\ IdleRetrieval
    /\ IdleCli

\* SpecHistory: "--history <playerName> [...filters]" has been read
InitHistory ==
    /\ pc = "history"
    /\ tomorrowMidnightGMT \in {t \in HistoryTimes : t > Ch5S1Start /\ t % DayLength = 0}
    /\ filters \in HistoryFilters
    /\ IdleHistory
    /\ IdleWindows
    /\ IdleAdditivity
    /\ IdleOutputs
    /\ rawStats = EmptyObject
    /\ variant = "none"
    /\ IdleSubtractor
    /\ includeBots = FALSE
    /\ nestedStats = EmptyObject
    /\ statsWithRates = EmptyObject
    /\ filteredStats = EmptyObject
    /\ timeWindow = NoWindow
    /\ directRequested = FALSE
    /\ useDirectMethod = FALSE
    /\ apiCalls = <<>>
    /\ apiResponses = <<>>
    /\ thrown = "none"
    /\ reportOutcome = Pending
    /\ IdleCli

\* SpecTRN: a raw stat map is at hand, to be structured and shown TRN-style
InitTRN ==
    /\ pc = "raw"
    /\ rawStats \in ReportRawMaps
    /\ variant = "none"
    /\ IdleSubtractor
    /\ IdlePipeline
    /\ IdleRetrieval
    /\ IdleExtra
    /\ IdleCli

(***************************************************************************)
(* Actions: the subtractors.                                               *)
(***************************************************************************)
\* fortniteRawStatOps.js subtractRawFortniteStats(largerWindow, smallerWindow)
SubtractRaw ==
    /\ pc = "snapshots"
    /\ rawStats' = subtractRawFortniteStats(largerWindow, smallerWindow)
    /\ variant' = "current"
    /\ pc' = "subtracted"
    /\ UNCHANGED <<extraVars, cliVars, subtractorVars, pipelineVars, retrievalVars>>

\* FortniteStatsRetriever.getStats: subtractRawFortniteStats(rawToEnd, rawToStart)
\* with the subtractor of fortniteStatCalculations.js
SubtractRawLegacy ==
    /\ pc = "snapshots"
    /\ rawStats' = subtractRawFortniteStats_Calculations(largerWindow, smallerWindow)
    /\ variant' = "legacy"
    /\ pc' = "subtracted"
    /\ UNCHANGED <<extraVars, cliVars, subtractorVars, pipelineVars, retrievalVars>>

(***************************************************************************)
(* Actions: structurer, annotator, filter.                                 *)
(***************************************************************************)
\* createFortniteStatObject(rawStats, includeBots) of fortniteStructuredStatOps.js
Structure ==
    /\ pc = "raw"
    /\ \E withBots \in BOOLEAN :
          /\ includeBots' = withBots
          /\ nestedStats' = createFortniteStatObject(rawStats, withBots)
    /\ variant' = "current"
    /\ pc' = "structured"
    /\ UNCHANGED <<extraVars, cliVars, rawStats, filters, statsWithRates, filteredStats,
                   subtractorVars, retrievalVars>>

\* FortniteStatsRetriever.getStats: "return createFortniteStatObject(rawStats)"
\* with the structurer of fortniteStatCalculations.js (bots always structured)
StructureLegacy ==
    /\ pc = "raw"
    /\ includeBots' = TRUE
    /\ nestedStats' = createFortniteStatObject_Calculations(rawStats)
    /\ variant' = "legacy"
    /\ pc' = "structured"
    /\ UNCHANGED <<extraVars, cliVars, rawStats, filters, statsWithRates, filteredStats,
                   subtractorVars, retrievalVars>>

\* reportStats: "let statSummary = addFortniteRateStats(stats)"
Annotate ==
    /\ pc = "structured"
    /\ statsWithRates' = addFortniteRateStats(nestedStats, TreeDepth)
    /\ nestedStats' = argumentAfterRateStats(nestedStats, TreeDepth)
    /\ pc' = "annotated"
    /\ UNCHANGED <<extraVars, cliVars, rawStats, variant, includeBots, filters, filteredStats,
                   subtractorVars, retrievalVars>>

\* reportStats: "const filteredStats = filterFortniteStats(statSummary, filter)"
FilterWith(tokenSets) ==
    /\ pc = "annotated"
    /\ \E tokens \in tokenSets :
          /\ filters' = tokens
          /\ filteredStats' = filterFortniteStats(statsWithRates, tokens)
    /\ pc' = "filtered"
    /\ UNCHANGED <<extraVars, cliVars, rawStats, variant, includeBots, nestedStats, statsWithRates,
                   subtractorVars, retrievalVars>>

Filter == FilterWith(FilterTokenSets)

\* reportStats([]): the report asked for without filter tokens
FilterNoTokens == FilterWith({{}})

(***************************************************************************)
(* Actions: the command-line report (main -> retrieveAndProcessFortniteStats*)
(* -> getFortniteStats).  The upstream API is the environment: each query  *)
(* either answers with some snapshot or fails with some error.             *)
(***************************************************************************)
Answer(stats) == [ok |-> TRUE, stats |-> stats, error |-> "none"]
Failure(e) == [ok |-> FALSE, stats |-> EmptyObject, error |-> e]

pureVars == <<variant, subtractorVars, pipelineVars>>

\* main, from the parsed window to the call of retrieveAndProcessFortniteStats
Main ==
    /\ pc = "main"
    /\ \E st \in EpochTimes, et \in EpochTimes, direct \in BOOLEAN :
          /\ timeWindow' = [startTime |-> zeroToCh1S1(st), endTime |-> zeroToCh1S1(et)]
          /\ directRequested' = direct
          /\ useDirectMethod' = (direct \/ forceDirect(zeroToCh1S1(st)))
    /\ pc' = "lookup"
    /\ UNCHANGED <<extraVars, cliVars, rawStats, pureVars, tomorrowMidnightGMT, apiCalls, apiResponses,
                   thrown, reportOutcome>>

\* getFortniteStats: getAccountByDisplayName answered, the method is chosen
LookupPlayer ==
    /\ pc = "lookup"
    /\ pc' = IF useDirectMethod THEN "direct" ELSE "call1"
    /\ UNCHANGED <<extraVars, cliVars, rawStats, pureVars, retrievalVars>>

\* getFortniteStats: getAccountByDisplayName failed; catch, log, rethrow
LookupPlayerFails ==
    /\ pc = "lookup"
    /\ \E e \in Errors : thrown' = e
    /\ pc' = "threw"
    /\ UNCHANGED <<extraVars, cliVars, rawStats, pureVars, timeWindow, directRequested, useDirectMethod,
                   tomorrowMidnightGMT, apiCalls, apiResponses, reportOutcome>>

\* getFortniteStats: "catch (error) { console.error(...); throw error; }":
\* where the flow stands after the fetch made at position failed
onFetchErrorRetry(position) == position

onFetchError(position) == "threw"

\* API call #1 answered
ApiCall1 ==
    /\ pc = "call1"
    /\ apiCalls' = Append(apiCalls, fromCh1s1ToNowOrEnd(timeWindow, tomorrowMidnightGMT))
    /\ \E snap \in ApiSnapshots : apiResponses' = Append(apiResponses, Answer(snap))
    /\ pc' = "call2"
    /\ UNCHANGED <<extraVars, cliVars, rawStats, pureVars, timeWindow, directRequested, useDirectMethod,
                   tomorrowMidnightGMT, thrown, reportOutcome>>

\* API call #1 failed; catch, log, rethrow
ApiCall1Fails ==
    /\ pc = "call1"
    /\ apiCalls' = Append(apiCalls, fromCh1s1ToNowOrEnd(timeWindow, tomorrowMidnightGMT))
    /\ \E e \in Errors :
          /\ apiResponses' = Append(apiResponses, Failure(e))
          /\ thrown' = e
    /\ pc' = onFetchError("call1")
    /\ UNCHANGED <<extraVars, cliVars, rawStats, pureVars, timeWindow, directRequested, useDirectMethod,
                   tomorrowMidnightGMT, reportOutcome>>

\* API call #2 answered; the subtraction runs and getFortniteStats returns
ApiCall2 ==
    /\ pc = "call2"
    /\ apiCalls' = Append(apiCalls, fromCh1s1ToStart(timeWindow))
    /\ \E snap \in ApiSnapshots :
          /\ apiResponses' = Append(apiResponses, Answer(snap))
          /\ rawStats' = isolateWindow(apiResponses[1].stats, snap)
    /\ pc' = "gotStats"
    /\ UNCHANGED <<extraVars, cliVars, pureVars, timeWindow, directRequested, useDirectMethod,
                   tomorrowMidnightGMT, thrown, reportOutcome>>

\* API call #2 failed; catch, log, rethrow
ApiCall2Fails ==
    /\ pc = "call2"
    /\ apiCalls' = Append(apiCalls, fromCh1s1ToStart(timeWindow))
    /\ \E e \in Errors :
          /\ apiResponses' = Append(apiResponses, Failure(e))
          /\ thrown' = e
    /\ pc' = onFetchError("call2")
    /\ UNCHANGED <<extraVars, cliVars, rawStats, pureVars, timeWindow, directRequested, useDirectMethod,
                   tomorrowMidnightGMT, reportOutcome>>

\* direct method: the single API call answered
DirectCall ==
    /\ pc = "direct"
    /\ apiCalls' = Append(apiCalls, timeWindow)
    /\ \E snap \in ApiSnapshots :
          /\ apiResponses' = Append(apiResponses, Answer(snap))
          /\ rawStats' = snap
    /\ pc' = "gotStats"
    /\ UNCHANGED <<extraVars, cliVars, pureVars, timeWindow, directRequested, useDirectMethod,
                   tomorrowMidnightGMT, thrown, reportOutcome>>

\* direct method: the single API call failed; catch, log, rethrow
DirectCallFails ==
    /\ pc = "direct"
    /\ apiCalls' = Append(apiCalls, timeWindow)
    /\ \E e \in Errors :
          /\ apiResponses' = Append(apiResponses, Failure(e))
          /\ thrown' = e
    /\ pc' = onFetchError("direct")
    /\ UNCHANGED <<extraVars, cliVars, rawStats, pureVars, timeWindow, directRequested, useDirectMethod,
                   tomorrowMidnightGMT, reportOutcome>>

\* how retrieveAndProcessFortniteStats settles when getFortniteStats threw e
settleOnErrorRethrow(e) == Rejected(e)

settleOnError(e) == Resolved

\* retrieveAndProcessFortniteStats: the stats arrived and are reported
ReportStats ==
    /\ pc = "gotStats"
    /\ reportOutcome' = Resolved
    /\ pc' = "done"
    /\ UNCHANGED <<extraVars, cliVars, rawStats, pureVars, timeWindow, directRequested, useDirectMethod,
                   tomorrowMidnightGMT, apiCalls, apiResponses, thrown>>

\* retrieveAndProcessFortniteStats: "catch (error) { console.error(...) }"
ReportCatches ==
    /\ pc = "threw"
    /\ reportOutcome' = settleOnError(thrown)
    /\ pc' = "done"
    /\ UNCHANGED <<extraVars, cliVars, rawStats, pureVars, timeWindow, directRequested, useDirectMethod,
                   tomorrowMidnightGMT, apiCalls, apiResponses, thrown>>

(***************************************************************************)
(* Actions: retrieveAndProcessFortniteStats after the retrieval (nested    *)
(* display without the TRN transformation, or raw display).                *)
(***************************************************************************)
\* "let filteredStats = rawStats; if (filters.length > 0) filteredStats =
\* filterRawFortniteStats(rawStats, filters)"
ApplyModeFilters ==
    /\ pc = "retrieved"
    /\ \E tokens \in CliTokenSets :
          /\ filters' = tokens
          /\ filteredAliasesRaw' = (tokens = {})
          /\ filteredRawStats' = IF tokens # {}
                                 THEN filterRawFortniteStats(rawStats, tokens)
                                 ELSE rawStats
    /\ pc' = "modeFiltered"
    /\ UNCHANGED <<extraVars, rawStats, retrievedStats, statPatternKeys, variant, includeBots,
                   nestedStats, statsWithRates, filteredStats, subtractorVars,
                   retrievalVars>>

\* "if (statPatternKeys.length > 0) filteredStats.stats =
\* filterByStatPatterns(filteredStats.stats, statPatternKeys)": the assignment
\* writes the stats property of the object filteredStats names
ApplyStatPatterns ==
    /\ pc = "modeFiltered"
    /\ \E keys \in CliPatternSets :
          /\ statPatternKeys' = keys
          /\ filteredRawStats' = IF keys # {}
                                 THEN filterByStatPatterns(filteredRawStats, keys)
                                 ELSE filteredRawStats
          /\ rawStats' = IF keys # {} /\ filteredAliasesRaw
                         THEN filterByStatPatterns(filteredRawStats, keys)
                         ELSE rawStats
    /\ pc' = "patternFiltered"
    /\ UNCHANGED <<extraVars, retrievedStats, filteredAliasesRaw, filters, variant, includeBots,
                   nestedStats, statsWithRates, filteredStats, subtractorVars,
                   retrievalVars>>

\* showRawStats: the filtered raw stats are printed
DisplayRaw ==
    /\ pc = "patternFiltered"
    /\ pc' = "displayedRaw"
    /\ UNCHANGED <<extraVars, cliVars, rawStats, pureVars, retrievalVars>>

\* nested structure mode: "No matching stats found", or the structure with
\* rates is built and printed
DisplayNested ==
    /\ pc = "patternFiltered"
    /\ IF DOMAIN filteredRawStats = {}
       THEN UNCHANGED <<includeBots, nestedStats, statsWithRates, variant>>
       ELSE LET withBots == "bots" \in filters
                tree == createFortniteStatObject(filteredRawStats, withBots)
            IN  /\ includeBots' = withBots
                /\ nestedStats' = argumentAfterRateStats(tree, TreeDepth)
                /\ statsWithRates' = addFortniteRateStats(tree, TreeDepth)
                /\ variant' = "current"
    /\ pc' = "displayed"
    /\ UNCHANGED <<extraVars, cliVars, rawStats, filters, filteredStats, subtractorVars,
                   retrievalVars>>

(***************************************************************************)
(* Actions: the two orders of filtering, on the raw map before structuring *)
(* and on the tree after it.                                               *)
(***************************************************************************)
rawFilterNamed(name, stats, tokens) ==
    IF name = "standalone"
    THEN filterRawFortniteStats_Standalone(stats, tokens)
    ELSE filterRawFortniteStats(stats, tokens)

FilterRawThenStructureWith(name) ==
    /\ pc = "raw"
    /\ \E tokens \in FilterTokenSets :
          /\ filters' = tokens
          /\ includeBots' = ("bots" \in tokens)
          /\ filteredRawStats' = rawFilterNamed(name, rawStats, tokens)
          /\ nestedStats' =
                createFortniteStatObject(rawFilterNamed(name, rawStats, tokens),
                                         "bots" \in tokens)
    /\ variant' = name
    /\ pc' = "rawFiltered"
    /\ UNCHANGED <<extraVars, rawStats, retrievedStats, filteredAliasesRaw, statPatternKeys,
                   statsWithRates, filteredStats, subtractorVars, retrievalVars>>

\* createFortniteStatObject(filterRawFortniteStats(rawStats, filters), includeBots)
FilterRawThenStructure ==
    FilterRawThenStructureWith("current")

\* the same with filterRawFortniteStats.js
FilterRawThenStructure_Standalone ==
    FilterRawThenStructureWith("standalone")

\* filterFortniteStats(createFortniteStatObject(rawStats, includeBots), filters)
StructureThenFilter ==
    /\ pc = "rawFiltered"
    /\ filteredStats' =
          filterFortniteStats(createFortniteStatObject(rawStats, includeBots), filters)
    /\ pc' = "compared"
    /\ UNCHANGED <<extraVars, cliVars, rawStats, variant, includeBots, filters, nestedStats,
                   statsWithRates, subtractorVars, retrievalVars>>

(***************************************************************************)
(* Specifications.                                                         *)
(***************************************************************************)
\* filterFortniteStats applied to its own result with the same tokens
FilterAgain ==
    /\ pc = "filtered"
    /\ refilteredStats' = filterFortniteStats(filteredStats, filters)
    /\ pc' = "refiltered"
    /\ UNCHANGED <<windowVars, additivityVars, historyVars, trnStats, cliVars, rawStats,
                   variant, pipelineVars, subtractorVars, retrievalVars>>

(***************************************************************************)
(* Actions: the TRN-style display.                                         *)
(***************************************************************************)
\* retrieveAndProcessFortniteStats with useTRNFormat: "nestedStats =
\* transformToTRNFormat(nestedStats); const statsWithRates =
\* addFortniteRateStats(nestedStats)"
TransformToTRN ==
    /\ pc = "structured"
    /\ trnStats' = transformToTRNFormat(nestedStats)
    /\ statsWithRates' = addFortniteRateStats(transformToTRNFormat(nestedStats), 1)
    /\ pc' = "trn"
    /\ UNCHANGED <<windowVars, additivityVars, historyVars, refilteredStats, cliVars,
                   rawStats, variant, includeBots, filters, nestedStats, filteredStats,
                   subtractorVars, retrievalVars>>

\* transformToTRNFormat handed a tree that already carries the rate fields
TransformRatesToTRN ==
    /\ pc = "annotated"
    /\ trnStats' = transformToTRNFormat(statsWithRates)
    /\ pc' = "trnOfRates"
    /\ UNCHANGED <<windowVars, additivityVars, historyVars, refilteredStats, cliVars,
                   rawStats, variant, pipelineVars, subtractorVars, retrievalVars>>

(***************************************************************************)
(* Actions: searchStatsHistory.  One step is one pass of the loop body,    *)
(* from the answer of getStats to the next wait or, when the loop is left, *)
(* to the written result file.                                             *)
(***************************************************************************)
historyFrame == <<windowVars, additivityVars, outputVars, cliVars, rawStats, variant, subtractorVars,
                  includeBots, filters, nestedStats, statsWithRates, filteredStats,
                  timeWindow, directRequested, useDirectMethod, tomorrowMidnightGMT,
                  reportOutcome>>

\* authenticated, player found: "let endTime = tonightMidnight; let step = 1"
SearchStart ==
    /\ pc = "history"
    /\ endTime' = tomorrowMidnightGMT
    /\ step' = 1
    /\ pc' = "searching"
    /\ UNCHANGED <<historyFrame, historyStats, statDifferences, savedResults,
                   apiCalls, apiResponses, thrown>>

\* authenticateClient or getAccountByDisplayName threw: caught and logged
SearchStartFails ==
    /\ pc = "history"
    /\ \E e \in Errors : thrown' = e
    /\ pc' = "caught"
    /\ UNCHANGED <<historyFrame, historyVars, apiCalls, apiResponses>>

\* one pass of "while (true)" whose query was answered
SearchStep ==
    /\ pc = "searching"
    /\ step <= MaxSteps
    /\ \E response \in HistoryResponses :
          LET filtered == IF filters # {}
                          THEN filterRawFortniteStats(response, filters)
                          ELSE response
              sortedStats == getSortedStats(filtered)
              pushed == Append(historyStats, [endTime |-> endTime, stats |-> sortedStats])
              diffs == IF step > 1
                       THEN Append(statDifferences,
                                   [endTime |-> endTime,
                                    differences |->
                                       getStatsDifference(sortedStats, pushed[step - 1].stats)])
                       ELSE statDifferences
              latestTimestamp == getLatestModifiedTimestamp(sortedStats)
              noEarlier == latestTimestamp = 0 \/ latestTimestamp <= Ch5S1Start
              nextEnd == IF noEarlier THEN endTime ELSE getMidnightGMT(latestTimestamp)
              leave == noEarlier \/ nextEnd <= Ch5S1Start
          IN  /\ apiCalls' = Append(apiCalls, [startTime |-> Ch1S1Start, endTime |-> endTime])
              /\ apiResponses' = Append(apiResponses, Answer(response))
              /\ historyStats' = pushed
              /\ statDifferences' = diffs
              /\ endTime' = nextEnd
              /\ step' = IF leave THEN step ELSE step + 1
              /\ savedResults' =
                    IF leave
                    THEN Append(savedResults,
                                [accumulatedStats |-> pushed, statDifferences |-> diffs])
                    ELSE savedResults
              /\ pc' = IF leave THEN "saved" ELSE "searching"
    /\ UNCHANGED <<historyFrame, thrown>>

\* the query of one pass threw: caught and logged, nothing is written
SearchStepFails ==
    /\ pc = "searching"
    /\ step <= MaxSteps
    /\ apiCalls' = Append(apiCalls, [startTime |-> Ch1S1Start, endTime |-> endTime])
    /\ \E e \in Errors :
          /\ apiResponses' = Append(apiResponses, Failure(e))
          /\ thrown' = e
    /\ pc' = "caught"
    /\ UNCHANGED <<historyFrame, historyVars>>

\* subtractRawFortniteStats applied to each pair of three snapshots
SubtractPairs ==
    /\ pc = "snapshots3"
    /\ differences' =
          [whole |-> subtractRawFortniteStats(largerWindow, smallerWindow),
           upper |-> subtractRawFortniteStats(largerWindow, middleWindow),
           lower |-> subtractRawFortniteStats(middleWindow, smallerWindow)]
    /\ rawStats' = subtractRawFortniteStats(largerWindow, smallerWindow)
    /\ variant' = "current"
    /\ pc' = "subtracted3"
    /\ UNCHANGED <<windowVars, historyVars, outputVars, middleWindow, cliVars, subtractorVars, pipelineVars,
                   retrievalVars>>

(***************************************************************************)
(* Actions: one window retrieved both ways from the same upstream.         *)
(***************************************************************************)
\* getFortniteStats(playerName, timeWindow, true): both calls answered
RetrieveTriple ==
    /\ pc = "window"
    /\ \E st \in Ch1S1Start..MaxTime, et \in Ch1S1Start..MaxTime :
          LET window == [startTime |-> st, endTime |-> et]
              call1 == fromCh1s1ToNowOrEnd(window, tomorrowMidnightGMT)
              call2 == fromCh1s1ToStart(window)
              statsToNowOrEnd == upstreamGetStats(upstream, call1)
              statsToStart == upstreamGetStats(upstream, call2)
          IN  /\ timeWindow' = window
              /\ apiCalls' = <<call1, call2>>
              /\ apiResponses' = <<Answer(statsToNowOrEnd), Answer(statsToStart)>>
              /\ rawStats' = isolateWindow(statsToNowOrEnd, statsToStart)
    /\ pc' = "tripleDone"
    /\ UNCHANGED <<upstream, directStats, additivityVars, historyVars, outputVars, cliVars, pureVars, directRequested,
                   useDirectMethod, tomorrowMidnightGMT, thrown, reportOutcome>>

\* getFortniteStats(playerName, timeWindow, false) for the same window
RetrieveDirect ==
    /\ pc = "tripleDone"
    /\ apiCalls' = Append(apiCalls, timeWindow)
    /\ apiResponses' = Append(apiResponses, Answer(upstreamGetStats(upstream, timeWindow)))
    /\ directStats' = upstreamGetStats(upstream, timeWindow)
    /\ pc' = "bothDone"
    /\ UNCHANGED <<upstream, additivityVars, historyVars, outputVars, cliVars, rawStats, pureVars, timeWindow, directRequested,
                   useDirectMethod, tomorrowMidnightGMT, thrown, reportOutcome>>

Next ==
    \/ Main
    \/ LookupPlayer
    \/ LookupPlayerFails
    \/ ApiCall1
    \/ ApiCall1Fails
    \/ ApiCall2
    \/ ApiCall2Fails
    \/ DirectCall
    \/ DirectCallFails
    \/ ReportStats
    \/ ReportCatches

Spec == Init /\ [][Next]_vars

NextSubtract == SubtractRaw \/ SubtractRawLegacy

SpecSubtract == InitSubtract /\ [][NextSubtract]_vars

NextStructure == Structure \/ StructureLegacy

SpecStructure == InitStructure /\ [][NextStructure]_vars

NextReport == Structure \/ StructureLegacy \/ Annotate \/ Filter

SpecReport == InitReport /\ [][NextReport]_vars

NextFilter == Structure \/ Annotate \/ Filter

SpecFilter == InitFilter /\ [][NextFilter]_vars

NextRates == Structure \/ Annotate \/ FilterNoTokens

SpecRates == InitRates /\ [][NextRates]_vars

NextEquivalence ==
    \/ FilterRawThenStructure
    \/ FilterRawThenStructure_Standalone
    \/ StructureThenFilter

SpecEquivalence == InitEquivalence /\ [][NextEquivalence]_vars

NextCli == ApplyModeFilters \/ ApplyStatPatterns \/ DisplayRaw \/ DisplayNested

SpecCli == InitCli /\ [][NextCli]_vars

NextPrune == Structure \/ Annotate \/ Filter \/ FilterAgain

SpecPrune == InitFilter /\ [][NextPrune]_vars

NextTRN == Structure \/ Annotate \/ TransformToTRN \/ TransformRatesToTRN

SpecTRN == InitTRN /\ [][NextTRN]_vars

NextHistory == SearchStart \/ SearchStartFails \/ SearchStep \/ SearchStepFails

SpecHistory == InitHistory /\ [][NextHistory]_vars

NextAdditivity == SubtractPairs

SpecAdditivity == InitAdditivity /\ [][NextAdditivity]_vars

NextWindows == RetrieveTriple \/ RetrieveDirect

SpecWindows == InitWindows /\ [][NextWindows]_vars

(***************************************************************************)
(* Helpers of the properties.                                              *)
(***************************************************************************)
Min(a, b) == IF a <= b THEN a ELSE b

\* a sum written without the reduce: every value times the number of keys holding it
RECURSIVE SumByValue(_, _, _)
SumByValue(vals, keys, stats) ==
    IF vals = {} THEN 0
    ELSE LET v == CHOOSE x \in vals : TRUE
         IN  v * Cardinality({k \in keys : stats[k] = v})
               + SumByValue(vals \ {v}, keys, stats)

SumOfCounters(keys, stats) == SumByValue({stats[k] : k \in keys}, keys, stats)

\* the <<buildMode, gameMode, compMode, teamSize>> paths of a tree
LeafPaths(tree) ==
    UNION {UNION {UNION {{<<b, g, c, sz>> : sz \in DOMAIN tree[b][g][c]} :
                            c \in DOMAIN tree[b][g]} :
                     g \in DOMAIN tree[b]} :
              b \in DOMAIN tree}

LeafAt(tree, p) == tree[p[1]][p[2]][p[3]][p[4]]

\* the triple-call technique is running or has run
TripleCallRan == pc \in {"call1", "call2"} \/ (apiCalls # <<>> /\ ~useDirectMethod)

(***************************************************************************)
(* C1: in triple-call mode getFortniteStats queries {origin, min(endTime,  *)
(* tomorrowMidnightUTC)} then {origin, startTime} and returns the first    *)
(* answer minus the second: per key, the first answer's value (or 0) minus *)
(* the second's (or 0), timestamps taken from the first answer.            *)
(***************************************************************************)
C1_TripleCallReturnsAMinusB ==
    (pc \in {"gotStats", "done"} /\ ~useDirectMethod /\ thrown = "none") =>
        /\ Len(apiCalls) = 2
        /\ apiCalls[1] = [startTime |-> Ch1S1Start,
                          endTime |-> Min(timeWindow.endTime, tomorrowMidnightGMT)]
        /\ apiCalls[2] = [startTime |-> Ch1S1Start, endTime |-> timeWindow.startTime]
        /\ LET A == apiResponses[1].stats
               B == apiResponses[2].stats
           IN  /\ DOMAIN rawStats = DOMAIN A \cup DOMAIN B
               /\ \A key \in DOMAIN rawStats :
                     rawStats[key] =
                        IF StringIncludes(key, "lastmodified")
                        THEN (IF key \in DOMAIN A THEN A[key] ELSE 0)
                        ELSE (IF key \in DOMAIN A THEN A[key] ELSE 0)
                               - (IF key \in DOMAIN B THEN B[key] ELSE 0)

\* a triple-call retrieval whose end time was clamped returned a non-zero difference
C1_Witness ==
    /\ pc = "gotStats"
    /\ ~useDirectMethod
    /\ timeWindow.endTime > tomorrowMidnightGMT
    /\ KeyMatchesKbmZbSolo \in DOMAIN rawStats
    /\ rawStats[KeyMatchesKbmZbSolo] > 0

(***************************************************************************)
(* C2: subtract(larger, smaller) has exactly the keys of either input and, *)
(* for every key that is not a lastmodified key, the value (larger or 0)   *)
(* minus (smaller or 0).                                                   *)
(***************************************************************************)
C2_SubtractUnionAndDifference ==
    pc = "subtracted" =>
        /\ DOMAIN rawStats = DOMAIN largerWindow \cup DOMAIN smallerWindow
        /\ \A key \in DOMAIN rawStats :
              ~StringIncludes(key, "lastmodified") =>
                 rawStats[key] =
                    (IF key \in DOMAIN largerWindow THEN largerWindow[key] ELSE 0)
                      - (IF key \in DOMAIN smallerWindow THEN smallerWindow[key] ELSE 0)

\* a subtraction with one counter only in the larger and one only in the smaller input
C2_Witness ==
    /\ pc = "subtracted"
    /\ variant = "current"
    /\ KeyMatchesKbmZbSolo \in DOMAIN largerWindow \ DOMAIN smallerWindow
    /\ KeyKillsKbmZbSolo \in DOMAIN smallerWindow \ DOMAIN largerWindow
    /\ largerWindow[KeyMatchesKbmZbSolo] > 0
    /\ smallerWindow[KeyKillsKbmZbSolo] > 0

(***************************************************************************)
(* C3: for every lastmodified key the subtractor of every retrieval path   *)
(* returns the larger snapshot's value if present, else 0, and never a     *)
(* difference.                                                             *)
(***************************************************************************)
C3_LastModifiedNeverSubtracted ==
    pc = "subtracted" =>
        \A key \in DOMAIN rawStats :
            StringIncludes(key, "lastmodified") =>
                rawStats[key] =
                    IF key \in DOMAIN largerWindow THEN largerWindow[key] ELSE 0

(***************************************************************************)
(* C4: a failure raised by the fetch capability during a report reaches    *)
(* the caller of retrieveAndProcessFortniteStats unchanged: the report     *)
(* rejects with that very error.                                           *)
(***************************************************************************)
C4_FetchFailurePropagates ==
    (pc = "done" /\ thrown # "none") => reportOutcome = Rejected(thrown)

(***************************************************************************)
(* C5: the triple-call technique never runs with a start time at or before *)
(* the ch1s1 start, whether or not --direct was given.                     *)
(***************************************************************************)
C5_DirectForcedAtOrigin ==
    TripleCallRan => timeWindow.startTime > Ch1S1Start

\* triple-call was requested for a window starting at the origin and the
\* retrieval ran as one direct call
C5_Witness ==
    /\ pc = "gotStats"
    /\ ~directRequested
    /\ timeWindow.startTime <= Ch1S1Start
    /\ Len(apiCalls) = 1
    /\ apiCalls[1] = timeWindow

\* the keys of a bucket that carry the matches pattern
MatchesKeysOf(stats, p) ==
    {k \in BucketKeys(stats, p[1], p[2], p[3], p[4]) : StringIncludes(k, "br_matchesplayed")}

(***************************************************************************)
(* C6: every team-size node of a tree returned by createFortniteStatObject *)
(* has a matches key among its raw keys and a summed matches value other   *)
(* than 0; a quadruple without matches key or with a zero total is absent. *)
(***************************************************************************)
C6_MatchGating ==
    pc = "structured" =>
        \A p \in LeafPaths(nestedStats) :
            /\ MatchesKeysOf(rawStats, p) # {}
            /\ SumOfCounters(MatchesKeysOf(rawStats, p), rawStats) # 0

(***************************************************************************)
(* C7: no tree has a trio bucket under a reload game mode, for every raw   *)
(* map and either value of includeBots.                                    *)
(***************************************************************************)
C7_NoReloadTrio ==
    pc = "structured" =>
        \A p \in LeafPaths(nestedStats) : ~(p[2] = "reload" /\ p[4] = "trio")

\* a map with played reload-trio and reload-squad keys was structured: the
\* reload branch exists, with the squad bucket
C7_Witness ==
    /\ pc = "structured"
    /\ variant = "current"
    /\ KeyMatchesReloadTrio \in DOMAIN rawStats
    /\ rawStats[KeyMatchesReloadTrio] > 0
    /\ <<"zeroBuild", "reload", "pubs", "squad">> \in LeafPaths(nestedStats)

(***************************************************************************)
(* C8: in every bucket kept by the structurer, the value under each stat   *)
(* kind is the sum of the raw values of all the bucket's keys matching     *)
(* that kind's pattern.                                                    *)
(***************************************************************************)
C8_AdditiveSums ==
    pc = "structured" =>
        \A p \in LeafPaths(nestedStats) :
            \A sn \in DOMAIN LeafAt(nestedStats, p) :
                LeafAt(nestedStats, p)[sn] =
                    Num(SumOfCounters(
                            {k \in BucketKeys(rawStats, p[1], p[2], p[3], p[4]) :
                                StringIncludes(k, PatternOf(sn))},
                            rawStats))

\* matches of one bucket reported for two input devices, with different counts
C8_Witness ==
    /\ pc = "structured"
    /\ variant = "current"
    /\ {KeyMatchesKbmZbSolo, KeyMatchesPadZbSolo} \subseteq DOMAIN rawStats
    /\ rawStats[KeyMatchesKbmZbSolo] = 1
    /\ rawStats[KeyMatchesPadZbSolo] = 2
    /\ <<"zeroBuild", "regular", "pubs", "solo">> \in LeafPaths(nestedStats)
    /\ LeafAt(nestedStats, <<"zeroBuild", "regular", "pubs", "solo">>)["matches"] = Num(3)

(***************************************************************************)
(* C9: createFortniteStatObject(raw, false) has no bots bucket anywhere,   *)
(* also for maps whose keys carry the bots marker.                         *)
(***************************************************************************)
C9_NoBotsUnlessIncluded ==
    (pc = "structured" /\ variant = "current" /\ ~includeBots) =>
        \A p \in LeafPaths(nestedStats) : p[3] # "bots"

\* a map with a played bots key and a played pubs key was structured without bots
C9_Witness ==
    /\ pc = "structured"
    /\ variant = "current"
    /\ ~includeBots
    /\ KeyMatchesBotsZbSolo \in DOMAIN rawStats
    /\ rawStats[KeyMatchesBotsZbSolo] > 0
    /\ <<"zeroBuild", "regular", "pubs", "solo">> \in LeafPaths(nestedStats)

(***************************************************************************)
(* C10: filterFortniteStats(tree, []) leaves no build branch and no bots   *)
(* branch, and every zeroBuild pubs and ranked leaf of the tree is in the  *)
(* result with unchanged values.                                           *)
(***************************************************************************)
C10_NoTokensDefaultExclusion ==
    (pc = "filtered" /\ filters = {}) =>
        /\ "build" \notin DOMAIN filteredStats
        /\ \A b \in DOMAIN filteredStats : \A g \in DOMAIN filteredStats[b] :
              "bots" \notin DOMAIN filteredStats[b][g]
        /\ \A p \in LeafPaths(statsWithRates) :
              (p[1] = "zeroBuild" /\ p[3] \in {"pubs", "ranked"}) =>
                 /\ p \in LeafPaths(filteredStats)
                 /\ LeafAt(filteredStats, p) = LeafAt(statsWithRates, p)

\* the leaves of a tree with their quadruples
Leaves(tree) == {<<p, LeafAt(tree, p)>> : p \in LeafPaths(tree)}

\* the <<buildMode, gameMode>> nodes of a tree that hold a bots branch
BotsParents(tree) ==
    {bg \in UNION {{<<b, g>> : g \in DOMAIN tree[b]} : b \in DOMAIN tree} :
        "bots" \in DOMAIN tree[bg[1]][bg[2]]}

(***************************************************************************)
(* C11: with no filter tokens the tree displayed by                        *)
(* retrieveAndProcessFortniteStats in nested-structure mode has no build   *)
(* branch and no bots branch: zero-build buckets only.                     *)
(***************************************************************************)
C11_CliDefaultZeroBuildNoBots ==
    (pc = "displayed" /\ filters = {}) =>
        /\ "build" \notin DOMAIN statsWithRates
        /\ BotsParents(statsWithRates) = {}

(***************************************************************************)
(* C12: build-mode tokens are an inclusion allowlist: with "build" named   *)
(* and "zeroBuild" not, the build branch of the tree is retained and       *)
(* zeroBuild is dropped; zeroBuild is kept whenever the tokens name no     *)
(* build mode or name "zeroBuild".                                         *)
(***************************************************************************)
C12_BuildTokensAreAllowlist ==
    pc = "filtered" =>
        /\ ("build" \in filters /\ "zeroBuild" \notin filters) =>
              /\ "zeroBuild" \notin DOMAIN filteredStats
              /\ "build" \in DOMAIN statsWithRates => "build" \in DOMAIN filteredStats
        /\ (filters \cap {"build", "zeroBuild"} = {} \/ "zeroBuild" \in filters) =>
              ("zeroBuild" \in DOMAIN statsWithRates => "zeroBuild" \in DOMAIN filteredStats)

\* a tree with both build modes was filtered with the single token "build"
C12_Witness ==
    /\ pc = "filtered"
    /\ filters = {"build"}
    /\ DOMAIN statsWithRates = {"zeroBuild", "build"}
    /\ DOMAIN filteredStats = {"build"}

(***************************************************************************)
(* C13 as stated: a bots branch of the tree is in the result of            *)
(* filterFortniteStats if and only if "bots" is among the tokens.          *)
(***************************************************************************)
C13_BotsSurviveIffNamed ==
    pc = "filtered" =>
        \A bg \in BotsParents(statsWithRates) :
            (bg \in BotsParents(filteredStats)) <=> ("bots" \in filters)

(***************************************************************************)
(* C13 amended: within every build-mode and game-mode branch the filter    *)
(* keeps, the bots branch is in the result if and only if the tree had it  *)
(* and "bots" is among the tokens; without the token no bots branch is     *)
(* left anywhere.                                                          *)
(***************************************************************************)
C13_BotsSurviveIffNamedInKeptBranches ==
    pc = "filtered" =>
        \A b \in DOMAIN filteredStats : \A g \in DOMAIN filteredStats[b] :
            ("bots" \in DOMAIN filteredStats[b][g])
               <=> ("bots" \in DOMAIN statsWithRates[b][g] /\ "bots" \in filters)

\* a tree with a bots branch and a pubs branch was filtered with the token
\* "bots": the bots branch is there and the pubs branch is not
C13_Witness ==
    /\ pc = "filtered"
    /\ filters = {"bots"}
    /\ <<"zeroBuild", "regular">> \in BotsParents(filteredStats)
    /\ "pubs" \in DOMAIN statsWithRates["zeroBuild"]["regular"]
    /\ "pubs" \notin DOMAIN filteredStats["zeroBuild"]["regular"]

(***************************************************************************)
(* C14: filtering the raw map and then structuring gives the leaves        *)
(* (quadruples and stat values) that structuring and then filtering the    *)
(* tree gives, for every raw map and token list, bots structured when      *)
(* "bots" is among the tokens.                                             *)
(***************************************************************************)
C14_RawFilterMatchesTreeFilter ==
    pc = "compared" => Leaves(nestedStats) = Leaves(filteredStats)

(***************************************************************************)
(* C15: addFortniteRateStats leaves the tree it is given unchanged: after  *)
(* the call the argument has the leaves it had and none of the derived     *)
(* fields, which are in the returned tree only.                            *)
(***************************************************************************)
C15_RateStatsLeaveArgumentUnchanged ==
    [][(pc = "structured" /\ pc' = "annotated") =>
          /\ nestedStats' = nestedStats
          /\ \A p \in LeafPaths(nestedStats') :
                /\ "winRate" \notin DOMAIN LeafAt(nestedStats', p)
                /\ "killsPerDeath" \notin DOMAIN LeafAt(nestedStats', p)
                /\ "winRate" \in DOMAIN LeafAt(statsWithRates', p)]_vars

\* a leaf without wins was annotated: the returned leaf has the defaulted
\* wins and the win rate, the argument's leaf has neither
C15_Witness ==
    /\ pc = "annotated"
    /\ <<"zeroBuild", "regular", "pubs", "solo">> \in LeafPaths(nestedStats)
    /\ LET given == LeafAt(nestedStats, <<"zeroBuild", "regular", "pubs", "solo">>)
           returned == LeafAt(statsWithRates, <<"zeroBuild", "regular", "pubs", "solo">>)
       IN  /\ "wins" \notin DOMAIN given
           /\ "winRate" \notin DOMAIN given
           /\ "wins" \in DOMAIN returned
           /\ "winRate" \in DOMAIN returned

(***************************************************************************)
(* C16: the raw stat map returned by the retrieval is never changed by     *)
(* retrieveAndProcessFortniteStats: after the mode filters and the         *)
(* stat-pattern filters rawStats.stats is what getFortniteStats returned,  *)
(* for every combination of empty and non-empty filters and pattern keys.  *)
(***************************************************************************)
C16_RetrievedRawStatsUnchanged ==
    pc \in {"modeFiltered", "patternFiltered", "displayed", "displayedRaw"} =>
        rawStats = retrievedStats

\* the rational n/d as a tree value, and "v is the quotient a/b" for b # 0
Rational(n, d) == [k |-> "num", n |-> n, d |-> d]

IsQuotient(v, a, b) == v.k = "num" /\ v.d > 0 /\ v.n * b = a * v.d

\* the integer under a stat name of a structured leaf, 0 when defaulted
StatOr0(leaf, name) == IF name \in DOMAIN leaf THEN leaf[name].n ELSE 0

SoloPath == <<"zeroBuild", "regular", "pubs", "solo">>

(***************************************************************************)
(* C17: at every leaf, winRate = wins/matches, topNRate = topN/matches for *)
(* every topN present, killsPerDeath = kills/(matches - wins),             *)
(* killsPer20 = kills*20/minutes and minutesPerKill = minutes/kills        *)
(* (wins and kills 0 when absent), wherever the divisor is not 0; the leaf *)
(* {matches: 10, wins: 2, kills: 16, minutes: 40, top5: 4} gets winRate    *)
(* 0.2, top5Rate 0.4, killsPerDeath 2, killsPer20 8, minutesPerKill 2.5.   *)
(***************************************************************************)
C17_RatesAreQuotients ==
    pc \in {"annotated", "filtered"} =>
        \A p \in LeafPaths(statsWithRates) :
            LET given == LeafAt(nestedStats, p)
                rated == LeafAt(statsWithRates, p)
                matches == given["matches"].n
                wins == StatOr0(given, "wins")
                kills == StatOr0(given, "kills")
            IN  /\ matches # 0 => IsQuotient(rated["winRate"], wins, matches)
                /\ \A top \in {"top3", "top5", "top6", "top10", "top12", "top25"} :
                      (top \in DOMAIN given /\ matches # 0) =>
                          IsQuotient(rated[top \o "Rate"], given[top].n, matches)
                /\ matches - wins # 0 =>
                      IsQuotient(rated["killsPerDeath"], kills, matches - wins)
                /\ ("minutes" \in DOMAIN given /\ given["minutes"].n # 0) =>
                      IsQuotient(rated["killsPer20"], kills * 20, given["minutes"].n)
                /\ ("minutes" \in DOMAIN given /\ kills # 0) =>
                      IsQuotient(rated["minutesPerKill"], given["minutes"].n, kills)
                /\ rawStats = ExampleRawStatsTop5 =>
                      /\ rated["winRate"] = Rational(1, 5)
                      /\ rated["top5Rate"] = Rational(2, 5)
                      /\ rated["killsPerDeath"] = Rational(2, 1)
                      /\ rated["killsPer20"] = Rational(8, 1)
                      /\ rated["minutesPerKill"] = Rational(5, 2)

\* the worked leaf was annotated
C17_Witness ==
    /\ pc = "annotated"
    /\ rawStats = ExampleRawStatsTop5
    /\ SoloPath \in LeafPaths(statsWithRates)
    /\ LeafAt(nestedStats, SoloPath)["top5"] = Rational(4, 1)
    /\ LeafAt(statsWithRates, SoloPath)["top5Rate"] = Rational(2, 5)

(***************************************************************************)
(* C18 as stated: at every leaf where matches equals wins, killsPerDeath   *)
(* is infinity whatever the kills value, kills absent included.            *)
(***************************************************************************)
C18_PerfectWinRateGivesInfinity ==
    pc \in {"annotated", "filtered"} =>
        \A p \in LeafPaths(statsWithRates) :
            LeafAt(nestedStats, p)["matches"].n = StatOr0(LeafAt(nestedStats, p), "wins") =>
                LeafAt(statsWithRates, p)["killsPerDeath"].k = "inf"

(***************************************************************************)
(* C18 amended: at every leaf where matches equals wins the annotation     *)
(* completes and killsPerDeath is kills/0 of IEEE arithmetic: infinity     *)
(* when kills > 0, NaN when kills is 0 (kills absent included), -infinity  *)
(* when kills < 0.                                                         *)
(***************************************************************************)
C18_PerfectWinRateDividesByZero ==
    pc \in {"annotated", "filtered"} =>
        \A p \in LeafPaths(statsWithRates) :
            LET given == LeafAt(nestedStats, p)
                kills == StatOr0(given, "kills")
            IN  given["matches"].n = StatOr0(given, "wins") =>
                    LeafAt(statsWithRates, p)["killsPerDeath"].k =
                        IF kills > 0 THEN "inf" ELSE IF kills < 0 THEN "ninf" ELSE "nan"

\* a leaf with every match won and some kills got an infinite killsPerDeath
C18_Witness ==
    /\ pc = "annotated"
    /\ SoloPath \in LeafPaths(statsWithRates)
    /\ "wins" \in DOMAIN LeafAt(nestedStats, SoloPath)
    /\ LeafAt(nestedStats, SoloPath)["wins"] = LeafAt(nestedStats, SoloPath)["matches"]
    /\ StatOr0(LeafAt(nestedStats, SoloPath), "kills") > 0
    /\ LeafAt(statsWithRates, SoloPath)["killsPerDeath"].k = "inf"

(***************************************************************************)
(* C19 as stated: at every leaf whose kills is 0 (kills absent included),  *)
(* minutesPerKill is infinity whatever the minutes value, minutes 0 and    *)
(* minutes absent included.                                                *)
(***************************************************************************)
C19_NoKillsGivesInfinity ==
    pc \in {"annotated", "filtered"} =>
        \A p \in LeafPaths(statsWithRates) :
            StatOr0(LeafAt(nestedStats, p), "kills") = 0 =>
                LeafAt(statsWithRates, p)["minutesPerKill"].k = "inf"

(***************************************************************************)
(* C19 amended: at every leaf whose kills is 0 (kills absent included) the *)
(* annotation completes and minutesPerKill is minutes/0 of IEEE            *)
(* arithmetic: infinity when minutes > 0, NaN when minutes is 0 or absent, *)
(* -infinity when minutes < 0.                                             *)
(***************************************************************************)
C19_NoKillsDividesByZero ==
    pc \in {"annotated", "filtered"} =>
        \A p \in LeafPaths(statsWithRates) :
            LET given == LeafAt(nestedStats, p)
                minutes == StatOr0(given, "minutes")
            IN  StatOr0(given, "kills") = 0 =>
                    LeafAt(statsWithRates, p)["minutesPerKill"].k =
                        IF minutes > 0 THEN "inf" ELSE IF minutes < 0 THEN "ninf" ELSE "nan"

\* a leaf without kills key and with minutes played got an infinite minutesPerKill
C19_Witness ==
    /\ pc = "annotated"
    /\ SoloPath \in LeafPaths(statsWithRates)
    /\ "kills" \notin DOMAIN LeafAt(nestedStats, SoloPath)
    /\ StatOr0(LeafAt(nestedStats, SoloPath), "minutes") > 0
    /\ LeafAt(statsWithRates, SoloPath)["kills"] = Rational(0, 1)
    /\ LeafAt(statsWithRates, SoloPath)["minutesPerKill"].k = "inf"

(***************************************************************************)
(* C20: the raw map with matches 10, wins 2, kills 16 and minutes 40 of    *)
(* keyboardmouse zero-build solo, structured, annotated and filtered with  *)
(* no tokens, is the tree whose only leaf is zeroBuild.regular.pubs.solo = *)
(* {matches: 10, wins: 2, kills: 16, minutes: 40, winRate: 0.2,            *)
(* killsPerDeath: 2, killsPer20: 8, minutesPerKill: 2.5}.                  *)
(***************************************************************************)
C20_EndToEndExample ==
    (pc = "filtered" /\ filters = {} /\ rawStats = ExampleRawStats) =>
        /\ LeafPaths(filteredStats) = {SoloPath}
        /\ DOMAIN filteredStats = {"zeroBuild"}
        /\ DOMAIN filteredStats["zeroBuild"] = {"regular"}
        /\ DOMAIN filteredStats["zeroBuild"]["regular"] = {"pubs"}
        /\ LeafAt(filteredStats, SoloPath) =
              [matches |-> Rational(10, 1), wins |-> Rational(2, 1),
               kills |-> Rational(16, 1), minutes |-> Rational(40, 1),
               winRate |-> Rational(1, 5), killsPerDeath |-> Rational(2, 1),
               killsPer20 |-> Rational(8, 1), minutesPerKill |-> Rational(5, 2)]

\* the example map went through the three steps
C20_Witness ==
    /\ pc = "filtered"
    /\ filters = {}
    /\ rawStats = ExampleRawStats
    /\ SoloPath \in LeafPaths(filteredStats)
    /\ LeafAt(nestedStats, SoloPath)["minutes"] = Rational(40, 1)

(***************************************************************************)
(* C21: for a window fully within one upstream snapshot interval, the      *)
(* triple-call retrieval and the direct retrieval return identical raw     *)
(* stat maps.  As stated this fails; what holds is agreement on every      *)
(* non-lastmodified key, a missing key counting as 0, for the windows of   *)
(* one snapshot interval that start at its opening snapshot or end before  *)
(* its closing one.                                                        *)
(***************************************************************************)
\* a and b are consecutive snapshot times and the window lies within [a, b]
WithinInterval(a, b) ==
    /\ a \in DOMAIN upstream /\ b \in DOMAIN upstream /\ a < b
    /\ \A t \in DOMAIN upstream : ~(a < t /\ t < b)
    /\ a <= timeWindow.startTime
    /\ timeWindow.startTime <= timeWindow.endTime
    /\ timeWindow.endTime <= b

AgreeOnCounters(x, y) ==
    \A k \in DOMAIN x \cup DOMAIN y :
        ~includes(k, "lastmodified") => OrZero(x, k) = OrZero(y, k)

\* C21 as stated: within one snapshot interval both retrievals return the
\* same raw stat map
C21_TripleEqualsDirect ==
    (pc = "bothDone" /\ \E a \in SnapshotTimes, b \in SnapshotTimes : WithinInterval(a, b))
        => rawStats = directStats

\* C21 amended: within one snapshot interval, for a window that starts at the
\* interval's opening snapshot or ends before its closing snapshot, both
\* retrievals agree on every non-lastmodified key, a missing key counting as 0
C21_TripleAgreesWithDirect ==
    (pc = "bothDone"
       /\ \E a \in SnapshotTimes, b \in SnapshotTimes :
             /\ WithinInterval(a, b)
             /\ (timeWindow.startTime = a \/ timeWindow.endTime < b))
        => AgreeOnCounters(rawStats, directStats)

C21_Witness ==
    /\ pc = "bothDone"
    /\ \E a \in SnapshotTimes, b \in SnapshotTimes :
          /\ WithinInterval(a, b)
          /\ timeWindow.startTime = a /\ timeWindow.endTime = b
          /\ OrZero(upstream[a], KeyMatchesKbmZbSolo) = 1
          /\ OrZero(upstream[b], KeyMatchesKbmZbSolo) = 2
    /\ OrZero(directStats, KeyMatchesKbmZbSolo) = 1
    /\ OrZero(rawStats, KeyMatchesKbmZbSolo) = 1

(***************************************************************************)
(* C22: for three snapshots S1, S2, S3 and every non-lastmodified key,     *)
(* subtract(S3, S1)[key] = subtract(S3, S2)[key] + subtract(S2, S1)[key],  *)
(* a key missing from a result counting as 0.                              *)
(***************************************************************************)
C22_SubtractorAdditivity ==
    pc = "subtracted3" =>
        \A key \in DOMAIN largerWindow \cup DOMAIN middleWindow \cup DOMAIN smallerWindow :
            ~includes(key, "lastmodified") =>
                OrZero(differences.whole, key)
                    = OrZero(differences.upper, key) + OrZero(differences.lower, key)

\* a key only the middle snapshot holds, with a value other than 0
C22_Witness ==
    /\ pc = "subtracted3"
    /\ KeyMatchesKbmZbSolo \in DOMAIN middleWindow
    /\ KeyMatchesKbmZbSolo \notin DOMAIN largerWindow \cup DOMAIN smallerWindow
    /\ OrZero(middleWindow, KeyMatchesKbmZbSolo) = 2
    /\ OrZero(differences.upper, KeyMatchesKbmZbSolo) = -2
    /\ OrZero(differences.lower, KeyMatchesKbmZbSolo) = 2
    /\ OrZero(differences.whole, KeyMatchesKbmZbSolo) = 0

(***************************************************************************)
(* C23: getStatsDifference(newStats, oldStats) stores new minus old for    *)
(* every non-lastmodified key present in both with different values,       *)
(* omits keys with equal values, and keys only in newStats carry newStats' *)
(* value.  Stated of every difference searchStatsHistory computes.         *)
(***************************************************************************)
C23_DifferenceIsNewMinusOld ==
    \A i \in 1..Len(statDifferences) :
        LET newStats == historyStats[i + 1].stats
            oldStats == historyStats[i].stats
            diff == statDifferences[i].differences
        IN  /\ \A key \in DOMAIN newStats \cap DOMAIN oldStats :
                  /\ newStats[key] = oldStats[key] => key \notin DOMAIN diff
                  /\ (newStats[key] # oldStats[key] /\ ~includes(key, "lastmodified"))
                        => (key \in DOMAIN diff /\ diff[key] = newStats[key] - oldStats[key])
            /\ \A key \in DOMAIN newStats \ DOMAIN oldStats :
                  key \in DOMAIN diff /\ diff[key] = newStats[key]

(***************************************************************************)
(* C29: from one step of searchStatsHistory to the next the query end time *)
(* strictly decreases; the loop is left exactly when the response has no   *)
(* lastmodified entry or the latest lastmodified time or the next end time *)
(* is at or before the ch5s1 start, and the results are then written once. *)
(***************************************************************************)
C29_SearchEndTimeDecreases ==
    [][pc = "searching" =>
          /\ pc' = "searching" => endTime' < endTime
          /\ pc' = "saved" =>
                /\ \/ getLatestModifiedTimestamp(historyStats'[Len(historyStats')].stats)
                         <= Ch5S1Start
                   \/ endTime' <= Ch5S1Start
                /\ Len(savedResults') = 1]_vars

(***************************************************************************)
(* C24: transformToTRNFormat groups by team size only, bots excluded: the  *)
(* team sizes of the result are those of the nodes outside bots branches,  *)
(* every raw counter of a team size is the sum of that counter over those  *)
(* nodes, and no derived rate field is in the result.                      *)
(***************************************************************************)
\* the tree transformToTRNFormat was handed
TrnSource == IF pc = "trn" THEN nestedStats ELSE statsWithRates

TrnNodes(size) == {p \in LeafPaths(TrnSource) : p[3] # "bots" /\ p[4] = size}

\* the sum of one counter over a set of nodes, value by value
RECURSIVE CounterTotal(_, _, _)
CounterTotal(vals, paths, statName) ==
    IF vals = {} THEN 0
    ELSE LET v == CHOOSE x \in vals : TRUE
         IN  v * Cardinality({p \in paths :
                                 /\ statName \in DOMAIN LeafAt(TrnSource, p)
                                 /\ LeafAt(TrnSource, p)[statName].n = v})
               + CounterTotal(vals \ {v}, paths, statName)

CounterValues(paths, statName) ==
    {LeafAt(TrnSource, p)[statName].n :
        p \in {q \in paths : statName \in DOMAIN LeafAt(TrnSource, q)}}

DerivedNames ==
    {"winRate", "killsPerDeath", "killsPer20", "minutesPerKill"}
        \cup {RateName(t) : t \in TopNames}

C24_TrnSumsByTeamSize ==
    pc \in {"trn", "trnOfRates"} =>
        /\ DOMAIN trnStats = {p[4] : p \in {q \in LeafPaths(TrnSource) : q[3] # "bots"}}
        /\ \A size \in DOMAIN trnStats :
              /\ \A statName \in StatNames :
                    IF statName \in DOMAIN trnStats[size]
                    THEN trnStats[size][statName]
                            = Num(CounterTotal(CounterValues(TrnNodes(size), statName),
                                               TrnNodes(size), statName))
                    ELSE \A p \in TrnNodes(size) : statName \notin DOMAIN LeafAt(TrnSource, p)
              /\ DOMAIN trnStats[size] \cap DerivedNames = {}

\* two solo nodes outside the bots branches are summed
C24_Witness ==
    /\ pc \in {"trn", "trnOfRates"}
    /\ "solo" \in DOMAIN trnStats
    /\ Cardinality(TrnNodes("solo")) = 2
    /\ trnStats["solo"]["matches"] = Num(3)

(***************************************************************************)
(* C25: the structurer buckets each raw key into exactly the quadruple the *)
(* classifier assigns it (ranked before bots before pubs, first team-size  *)
(* marker in the order solo, duo, trio, squad): every leaf a raw key       *)
(* contributes its value to is the leaf of that quadruple, so a key        *)
(* contributes to at most one leaf.                                        *)
(***************************************************************************)
\* the value of key is part of a sum stored in the leaf at path p
ContributesTo(key, p) ==
    /\ key \in BucketKeys(rawStats, p[1], p[2], p[3], p[4])
    /\ \E statName \in StatNames : includes(key, PatternOf(statName))

ClassifiedAs(key) == <<buildModeOf(key), gameModeOf(key), compModeOf(key), teamSizeOf(key)>>

C25_OneLeafPerRawKey ==
    (pc = "structured" /\ variant = "current") =>
        \A key \in DOMAIN rawStats :
            /\ \A p \in LeafPaths(nestedStats) :
                  ContributesTo(key, p) => p = ClassifiedAs(key)
            /\ Cardinality({p \in LeafPaths(nestedStats) : ContributesTo(key, p)}) <= 1

(***************************************************************************)
(* C26: the tree returned by createFortniteStatObject has no empty branch: *)
(* every build-mode, game-mode and comp-mode node has at least one child,  *)
(* every team-size leaf holds the matches stat, and a raw map without a    *)
(* qualifying bucket yields the empty tree.                                *)
(***************************************************************************)
\* the quadruples the structurer may keep for this call
Quadruples ==
    {q \in Range(buildModes) \X Range(gameModes) \X Range(compModes) \X Range(teamSizes) :
        /\ ~(q[2] = "reload" /\ q[4] = "trio")
        /\ (q[3] = "bots" => includeBots)}

Qualifies(q) ==
    /\ MatchesKeysOf(rawStats, q) # {}
    /\ SumOfCounters(MatchesKeysOf(rawStats, q), rawStats) # 0

C26_NoEmptyBranch ==
    (pc = "structured" /\ variant = "current") =>
        /\ \A b \in DOMAIN nestedStats :
              /\ DOMAIN nestedStats[b] # {}
              /\ \A g \in DOMAIN nestedStats[b] :
                    /\ DOMAIN nestedStats[b][g] # {}
                    /\ \A c \in DOMAIN nestedStats[b][g] :
                          /\ DOMAIN nestedStats[b][g][c] # {}
                          /\ \A sz \in DOMAIN nestedStats[b][g][c] :
                                "matches" \in DOMAIN nestedStats[b][g][c][sz]
        /\ (\A q \in Quadruples : ~Qualifies(q)) => nestedStats = EmptyObject

\* a raw map with keys of two comp modes of which only one was played: the
\* other comp mode is left out, the tree is not empty
C26_Witness ==
    /\ pc = "structured"
    /\ variant = "current"
    /\ KeyMatchesKbmZbSolo \in DOMAIN rawStats
    /\ KeyMatchesRankedZbSolo \in DOMAIN rawStats
    /\ rawStats[KeyMatchesKbmZbSolo] = 0
    /\ rawStats[KeyMatchesRankedZbSolo] = 1
    /\ DOMAIN nestedStats = {"zeroBuild"}
    /\ DOMAIN nestedStats["zeroBuild"]["regular"] = {"ranked"}

(***************************************************************************)
(* C27: no retry and no partial result.  Within one retrieval at most two  *)
(* queries are issued in triple mode and one in direct mode; a query is    *)
(* issued only after every earlier one was answered; the stats are         *)
(* returned only after every query of the mode was answered; and once a    *)
(* fetch has failed no further fetch is issued and nothing is returned.    *)
(***************************************************************************)
FetchFailed == \E i \in 1..Len(apiResponses) : ~apiResponses[i].ok

C27_NoRetryNoPartialResult ==
    /\ Len(apiCalls) <= (IF useDirectMethod THEN 1 ELSE 2)
    /\ Len(apiResponses) = Len(apiCalls)
    /\ \A i \in 1..(Len(apiResponses) - 1) : apiResponses[i].ok
    /\ pc = "gotStats" =>
          /\ Len(apiCalls) = (IF useDirectMethod THEN 1 ELSE 2)
          /\ ~FetchFailed
    /\ FetchFailed =>
          /\ pc \in {"threw", "done"}
          /\ thrown # "none"
          /\ rawStats = EmptyObject

\* the second query failed after the first was answered
C27_Witness ==
    /\ pc = "done"
    /\ ~useDirectMethod
    /\ Len(apiResponses) = 2
    /\ apiResponses[1].ok
    /\ ~apiResponses[2].ok
    /\ rawStats = EmptyObject

(***************************************************************************)
(* C28: every subtraction of a triple-mode retrieval has the query end     *)
(* time of its first argument (min(endTime, tomorrowMidnightGMT)) at or    *)
(* after that of its second (startTime), for every window with             *)
(* startTime <= endTime and every current time.                            *)
(***************************************************************************)
C28_SubtractionPrecondition ==
    (/\ pc = "gotStats"
     /\ ~useDirectMethod
     /\ timeWindow.startTime <= timeWindow.endTime)
        => apiCalls[1].endTime >= apiCalls[2].endTime

(***************************************************************************)
(* C30: filterFortniteStats only removes branches: every leaf of the       *)
(* returned tree is in the input tree at the same path with the same field *)
(* values, the input tree is left unchanged, and filtering the result      *)
(* again with the same tokens returns the same tree.                       *)
(***************************************************************************)
C30_FilterOnlyRemovesBranches ==
    [][/\ (pc = "annotated" /\ pc' = "filtered") =>
             /\ \A p \in LeafPaths(filteredStats') :
                   /\ p \in LeafPaths(statsWithRates)
                   /\ LeafAt(filteredStats', p) = LeafAt(statsWithRates, p)
             /\ statsWithRates' = statsWithRates
       /\ (pc = "filtered" /\ pc' = "refiltered") =>
             /\ refilteredStats' = filteredStats
             /\ filteredStats' = filteredStats]_vars

====
